---- MODULE Spec2Model ----
(***************************************************************************)
(* A model of the log-structured key-value engine KvStore                  *)
(* (src/src/kvs/store.rs): the data file (header + appended SET/DELETE     *)
(* records), the index file, the in-memory index, writeback, fetch,        *)
(* compaction, open (recovery scan) and drop.                              *)
(*                                                                         *)
(* The data file is kept as its header plus the set of records written,    *)
(* each with the byte offset it starts at and the number of its bytes      *)
(* that are on disk; a byte range no record covers reads as zeros (a       *)
(* hole), which does not decode.  Sizes are the BSON sizes of the          *)
(* serialized structs, so offsets and the compaction threshold are the     *)
(* program's own numbers.  KvHeader.last_open (wall-clock time) is left    *)
(* out: nothing reads it.                                                  *)
(***************************************************************************)
EXTENDS Integers, Sequences, FiniteSets, TLC

\* ---------------------------------------------------------------- bounds

\* Length of the long value: its record ends one byte short of the first
\* threshold, so that whatever is appended next, a DELETE included, crosses it.
BigLen == 32643
\* Length of the short value; long enough for two long records and a short
\* one to cross the threshold that a compaction of an emptied log leaves.
SmallLen == 98
\* Cap on the number of records (whole or torn) in the data file.
MaxRecs == 3
\* Cap on the set/remove calls the threads of one run make in all.
MaxCalls == 3
\* The same cap where every lock operation is a step of its own.
MaxLockCalls == 2
\* Cap on the clones of one engine that exist at a time.
MaxHandles == 2
\* Length of the value a client sends that is longer than the server's read
\* buffer and shorter than the 4 KiB the specification asks a buffer to hold.
MidLen == 2000

\* ------------------------------------------------------- program constants

BUILD_NUMBER == 1200
MIN_COMPACTION_THRESHOLD == 32768
\* The same two constants in the previous version of the engine (src/src/kvs.rs).
OLD_BUILD_NUMBER == 1001
OLD_MIN_COMPACTION_THRESHOLD == 8192
\* let mut buf = [0; 1024] in KvsServer::handle_stream and KvsClient::send_and_fetch
ServerBufLen == 1024
ClientBufLen == 1024

\* ---------------------------------------------------------------- inputs

Keys == {"k1", "k2"}
Threads == {"t1", "t2"}
\* A value is the string of n copies of the character c.
Vals == {[c |-> "a", n |-> SmallLen], [c |-> "b", n |-> BigLen]}

\* ------------------------------------------------------------ LogCodec

\* KvsEntries::SET(key, value) and KvsEntries::DELETE(key)
SetEntry(k, v) == [kind |-> "SET", key |-> k, value |-> v]
DeleteEntry(k) == [kind |-> "DELETE", key |-> k]

\* Length of bson::to_vec(&entry).  A BSON document is int32 length,
\* elements, 0x00; an element is type byte, name, 0x00, payload; a string
\* payload is int32 length, bytes, 0x00.
\*   SET(k, v)  = {"SET": [k, v]}: 4 + (1 + 4 + array) + 1 with
\*                array = 4 + (1 + 2 + 4 + |k| + 1) + (1 + 2 + 4 + |v| + 1) + 1
\*   DELETE(k)  = {"DELETE": k}:   4 + (1 + 7 + 4 + |k| + 1) + 1
EntrySize(e) ==
    IF e.kind = "SET"
    THEN 4 + (1 + 4 + (4 + (1 + 2 + 4 + Len(e.key) + 1) + (1 + 2 + 4 + e.value.n + 1) + 1)) + 1
    ELSE 4 + (1 + 7 + 4 + Len(e.key) + 1) + 1

\* Length of bson::to_vec(&header): four u64 fields written as int64
\* (build_number, last_open, next_compaction_size, flags).
HeaderSize == 4 + (1 + 13 + 8) + (1 + 10 + 8) + (1 + 21 + 8) + (1 + 6 + 8) + 1

\* ------------------------------------------------------------------ state

VARIABLES
    db_header,      \* data file, bytes [0, HeaderSize): <<>> or <<KvHeader>>
    db_records,     \* data file, the records written: [offset, entry, written]
    index_file,     \* index file: the KvsIndexEntries in it, in file order
                    \* (<<>> = absent or zero length)
    alive,          \* an engine (KvStore) exists in the process
    handles,        \* the number of KvStore values (clones) that share it
    store,          \* KvStoreInt: [header, index, modified]
    db_offset,      \* KvStore.db_offset
    ret,            \* what the last call returned; while no engine exists, how
                    \* the last one went away ("none", "dropped", "crashed", "torn")
    shadow,         \* key -> value of the last set not followed by a remove
    view,           \* while no engine exists: what get returned for every key at the end
    pc,             \* per thread: where its call stands ("idle" between calls)
    req,            \* per thread: the entry its call appends
    roff,           \* per thread: the offset its call has reserved
    calls,          \* per thread: the number, in call order, of its latest set/remove
    pred,           \* per thread: the writes that had returned when its call began
    fresh,          \* per key: the returned writes no later returned write follows
    locks,          \* per thread: the lock guards it holds, as <<lock, mode>>
    server          \* the server process: KvsServer and what its last connection did

\* The threads' positions and the record of which writes are still current.
conc == <<pc, req, roff, calls, pred, fresh, locks>>

vars == <<db_header, db_records, index_file, alive, handles, store, db_offset, ret,
          shadow, view, pc, req, roff, calls, pred, fresh, locks, server>>

\* --------------------------------------------------------------- helpers

Max(S) == CHOOSE x \in S : \A y \in S : y <= x

EmptyIndex == [k \in {} |-> 0]
\* HashMap::insert / HashMap::remove
IndexInsert(index, k, o) == [x \in DOMAIN index \cup {k} |-> IF x = k THEN o ELSE index[x]]
IndexRemove(index, k) == [x \in DOMAIN index \ {k} |-> index[x]]

None == <<"None">>
Some(v) == <<"Some", v>>

\* Length of the data file (metadata().len(), seek(SeekFrom::End(0))).
FileLen(hdr, recs) ==
    Max({0} \cup {HeaderSize : h \in 1 .. Len(hdr)}
            \cup {r.offset + r.written : r \in recs})

\* bson::from_reader::<_, KvsEntries> at offset o: Ok exactly when a record
\* starts at o and all of its bytes are in the file.
Decodes(recs, o) ==
    \E r \in recs : r.offset = o /\ r.written = EntrySize(r.entry)
EntryAt(recs, o) ==
    (CHOOSE r \in recs : r.offset = o /\ r.written = EntrySize(r.entry)).entry

\* A record whose bytes are all written at offset o.
Whole(o, e) == [offset |-> o, entry |-> e, written |-> EntrySize(e)]

\* The recovery scan of open: apply the records from offset on, stop at the
\* first position that does not decode.
RECURSIVE Reindex(_, _, _)
Reindex(recs, offset, index) ==
    IF ~Decodes(recs, offset) THEN index
    ELSE LET e == EntryAt(recs, offset)
         IN  Reindex(recs, offset + EntrySize(e),
                     IF e.kind = "SET" THEN IndexInsert(index, e.key, offset)
                                       ELSE IndexRemove(index, e.key))

\* The records of key k whose bytes are all in the file.
WholeOf(recs, k) == {r \in recs : r.entry.key = k /\ r.written = EntrySize(r.entry)}
LastOf(recs, k) == CHOOSE r \in WholeOf(recs, k) : \A q \in WholeOf(recs, k) : q.offset <= r.offset

\* The orders in which a HashMap of these keys can be iterated.
Orders(S) ==
    {s \in [1 .. Cardinality(S) -> S] : \A i, j \in DOMAIN s : i # j => s[i] # s[j]}

\* WriteIndex with the last entry left in a buffer that is never flushed.
WriteIndex_LastLost(index, order) ==
    [i \in 1 .. Len(order) - 1 |-> [key |-> order[i], offset |-> index[order[i]]]]

\* KvStore::write_index: one KvsIndexEntries per entry of the index, in the
\* order the HashMap is iterated.
WriteIndex(index, order) ==
    [i \in 1 .. Len(order) |-> [key |-> order[i], offset |-> index[order[i]]]]

\* The loop of open that loads the index file: every entry decoded is
\* inserted, a later one of the same key replacing an earlier one.
RECURSIVE ReadIndexFrom(_, _)
ReadIndexFrom(file, index) ==
    IF file = <<>> THEN index
    ELSE ReadIndexFrom(Tail(file), IndexInsert(index, Head(file).key, Head(file).offset))
ReadIndex(file) == ReadIndexFrom(file, EmptyIndex)

\* Fetch that returns the value of whatever SET record it finds at the offset.
Fetch_AnyKey(index, recs, key) ==
    IF key \notin DOMAIN index THEN <<"Ok", None>>
    ELSE IF Decodes(recs, index[key]) /\ EntryAt(recs, index[key]).kind = "SET"
         THEN <<"Ok", Some(EntryAt(recs, index[key]).value)>>
         ELSE <<"Err", "InvalidDataEntry">>

\* KvStore::fetch
Fetch(index, recs, key) ==
    IF key \notin DOMAIN index THEN <<"Ok", None>>
    ELSE IF /\ Decodes(recs, index[key])
            /\ EntryAt(recs, index[key]).kind = "SET"
            /\ EntryAt(recs, index[key]).key = key
         THEN <<"Ok", Some(EntryAt(recs, index[key]).value)>>
         ELSE <<"Err", "InvalidDataEntry">>

\* IndexUpdate with the DELETE arm leaving the entry in place.
IndexUpdate_KeepDeleted(index, e, offset) ==
    IF e.key \in DOMAIN index /\ index[e.key] > offset THEN index
    ELSE IF e.kind = "SET" THEN IndexInsert(index, e.key, offset)
                           ELSE index

\* IndexUpdate with the comparison of the offsets the other way round.
IndexUpdate_Flipped(index, e, offset) ==
    IF e.key \in DOMAIN index /\ index[e.key] < offset THEN index
    ELSE IF e.kind = "SET" THEN IndexInsert(index, e.key, offset)
                           ELSE IndexRemove(index, e.key)

\* IndexUpdate recording the offset fetch_add leaves (the end of the record)
\* instead of the one it returns.
IndexUpdate_EndOffset(index, e, offset) ==
    IF e.key \in DOMAIN index /\ index[e.key] > offset THEN index
    ELSE IF e.kind = "SET" THEN IndexInsert(index, e.key, offset + EntrySize(e))
                           ELSE IndexRemove(index, e.key)

\* IndexUpdate without the offset comparison: the last update applied wins.
IndexUpdate_LastWins(index, e, offset) ==
    IF e.kind = "SET" THEN IndexInsert(index, e.key, offset)
                      ELSE IndexRemove(index, e.key)

\* The index update of KvStore::writeback (monotonic offset rule).
IndexUpdate(index, e, offset) ==
    IF e.key \in DOMAIN index /\ index[e.key] > offset THEN index
    ELSE IF e.kind = "SET" THEN IndexInsert(index, e.key, offset)
                           ELSE IndexRemove(index, e.key)

\* ------------------------------------------------------------ the engine

\* The engine and the data file it works on, as one value:
\*   hdr, recs : the data file;  store : KvStoreInt;  off : db_offset;
\*   res : the Result of the last call that touched it.
Machine(hdr, recs, st, off) ==
    [hdr |-> hdr, recs |-> recs, store |-> st, off |-> off, res |-> <<"Ok">>]

\* KvStore::writeback: reserve [off, off + len) by fetch_add, write the bytes
\* there, then update the index and set modified.
Writeback(m, e) ==
    LET offset == m.off
    IN  [m EXCEPT !.off = offset + EntrySize(e),
                  !.recs = m.recs \cup {Whole(offset, e)},
                  !.store.index = IndexUpdate(m.store.index, e, offset),
                  !.store.modified = TRUE]

\* The keys compaction collects: index entries whose offset decodes as a SET
\* (an entry that does not decode as a SET is skipped without an error).
CompactionKeys(m) ==
    {k \in DOMAIN m.store.index :
        /\ Decodes(m.recs, m.store.index[k])
        /\ EntryAt(m.recs, m.store.index[k]).kind = "SET"}

\* The rewrite loop of compaction: one SET per collected key, in iteration
\* order, each at the offset the writer has reached.
RECURSIVE Rewrite(_, _, _, _)
Rewrite(order, val, offset, acc) ==
    IF order = <<>> THEN acc
    ELSE LET e == SetEntry(Head(order), val[Head(order)])
         IN  Rewrite(Tail(order), val, offset + EntrySize(e),
                     [recs |-> acc.recs \cup {Whole(offset, e)},
                      index |-> IndexInsert(acc.index, Head(order), offset)])

\* KvStore::compaction, run to its end; order is the iteration order of the
\* collected entries.
\* Compaction that leaves the index as it was, pointing into the old file.
Compaction_OldIndex(m, order) ==
    IF m.off < m.store.header.next_compaction_size THEN [m EXCEPT !.res = <<"Ok">>]
    ELSE IF \E k \in CompactionKeys(m) : EntryAt(m.recs, m.store.index[k]).key # k
    THEN [m EXCEPT !.res = <<"Err", "InvalidDataEntry">>]
    ELSE LET val == [k \in CompactionKeys(m) |-> EntryAt(m.recs, m.store.index[k]).value]
             out == Rewrite(order, val, HeaderSize, [recs |-> {}, index |-> EmptyIndex])
             header == [m.store.header EXCEPT
                           !.next_compaction_size = Max({m.off * 2, MIN_COMPACTION_THRESHOLD})]
         IN  [hdr |-> <<header>>,
              recs |-> out.recs,
              store |-> [m.store EXCEPT !.header = header],
              off |-> FileLen(<<header>>, out.recs),
              res |-> <<"Ok">>]

\* Compaction without the second test of the threshold (lines 189-191).
Compaction_NoRecheck(m, order) ==
    IF \E k \in CompactionKeys(m) : EntryAt(m.recs, m.store.index[k]).key # k
    THEN [m EXCEPT !.res = <<"Err", "InvalidDataEntry">>]
    ELSE LET val == [k \in CompactionKeys(m) |-> EntryAt(m.recs, m.store.index[k]).value]
             out == Rewrite(order, val, HeaderSize, [recs |-> {}, index |-> EmptyIndex])
             header == [m.store.header EXCEPT
                           !.next_compaction_size = Max({m.off * 2, MIN_COMPACTION_THRESHOLD})]
         IN  [hdr |-> <<header>>,
              recs |-> out.recs,
              store |-> [m.store EXCEPT !.header = header, !.index = out.index],
              off |-> FileLen(<<header>>, out.recs),
              res |-> <<"Ok">>]

Compaction(m, order) ==
    IF m.off < m.store.header.next_compaction_size THEN [m EXCEPT !.res = <<"Ok">>]
    ELSE IF \E k \in CompactionKeys(m) : EntryAt(m.recs, m.store.index[k]).key # k
    THEN [m EXCEPT !.res = <<"Err", "InvalidDataEntry">>]
    ELSE LET val == [k \in CompactionKeys(m) |-> EntryAt(m.recs, m.store.index[k]).value]
             out == Rewrite(order, val, HeaderSize, [recs |-> {}, index |-> EmptyIndex])
             header == [m.store.header EXCEPT
                           !.next_compaction_size = Max({m.off * 2, MIN_COMPACTION_THRESHOLD})]
         IN  [hdr |-> <<header>>,
              recs |-> out.recs,
              store |-> [m.store EXCEPT !.header = header, !.index = out.index],
              off |-> FileLen(<<header>>, out.recs),
              res |-> <<"Ok">>]

\* NeedsCompaction that never finds the threshold reached.
NeedsCompaction_Never(m) == FALSE

\* KvStore::check_compaction
NeedsCompaction(m) == m.off >= m.store.header.next_compaction_size
\* CheckCompaction that never finds the threshold reached.
CheckCompaction_Never(m, order) == m

CheckCompaction(m, order) == IF NeedsCompaction(m) THEN Compaction(m, order) ELSE m

\* ------------------------------------------------- one call at a time

NoStore == [header |-> [build_number |-> 0, next_compaction_size |-> 0, flags |-> 0],
            index |-> EmptyIndex, modified |-> FALSE]

Cur == Machine(db_header, db_records, store, db_offset)

\* What get returns for every key.
NoView == [k \in Keys |-> <<"Ok", None>>]
ViewOf(m) == [k \in Keys |-> Fetch(m.store.index, m.recs, k)]

InstallFiles(m) ==
    /\ db_header' = m.hdr
    /\ db_records' = m.recs
    /\ store' = m.store
    /\ db_offset' = m.off
Install(m) ==
    /\ InstallFiles(m)
    /\ ret' = m.res

\* No call in progress.
NoReq == [kind |-> "NONE", key |-> ""]
\* What a write leaves for get to return.
Eff(e) == IF e.kind = "SET" THEN Some(e.value) ELSE None
\* At open every key has one current write: whatever the files hold for it.
FreshAt(v) == [k \in Keys |-> {[id |-> <<"open", 0>>, eff |-> v[k][2]]}]

\* No server process: KvsServer::open has not been called.
NoRequest == [cmd |-> "", argument |-> <<>>]
NoReply == [result |-> None, status |-> "NoReply"]
NoServer ==
    [state |-> "none", engine |-> "", backend |-> "none", kvs_db |-> FALSE, sled_db |-> FALSE,
     need_termination |-> FALSE, result |-> <<"none">>,
     request |-> NoRequest, reply |-> NoReply, call |-> "none"]

\* No engine yet; the data file is absent or empty but for its first bytes hdr.
InitEngine(hdr) ==
    /\ db_header = hdr
    /\ db_records = {}
    /\ index_file = <<>>
    /\ alive = FALSE
    /\ handles = 0
    /\ store = NoStore
    /\ db_offset = 0
    /\ ret = <<"none">>
    /\ shadow = [k \in Keys |-> None]
    /\ view = NoView
    /\ pc = [t \in Threads |-> "idle"]
    /\ req = [t \in Threads |-> NoReq]
    /\ roff = [t \in Threads |-> 0]
    /\ calls = [t \in Threads |-> 0]
    /\ pred = [t \in Threads |-> {}]
    /\ fresh = FreshAt(NoView)
    /\ locks = [t \in Threads |-> {}]
InitWith(hdr) ==
    /\ InitEngine(hdr)
    /\ server = NoServer

Init == InitWith(<<>>)

\* First bytes of a data file that do not decode as a KvHeader.
Garbage == [junk |-> TRUE]
\* open returns InvalidDatabaseFormat: the file is not empty and
\* bson::from_reader::<_, KvHeader> fails on it.
OpenFails(hdr, recs) == FileLen(hdr, recs) # 0 /\ (hdr = <<>> \/ hdr[1] = Garbage)

\* KvsEngine::open for KvStore
\* OpenHeader with the header of a blank file left at its zero values.
OpenHeader_Zeroed(hdr, recs) ==
    [(IF FileLen(hdr, recs) # 0
      THEN hdr[1]
      ELSE [build_number |-> 0, next_compaction_size |-> 0, flags |-> 0])
     EXCEPT !.flags = 1]

\* The header open works with and writes back (lines 111-127).
OpenHeader(hdr, recs) ==
    [(IF FileLen(hdr, recs) # 0
      THEN hdr[1]
      ELSE [build_number |-> BUILD_NUMBER,
            next_compaction_size |-> MIN_COMPACTION_THRESHOLD,
            flags |-> 1])
     EXCEPT !.flags = 1]
\* UseIndexFile without the test of the dirty bit.
UseIndexFile_IgnoreDirty(header, idx) == Len(idx) # 0

\* The existing index is used only if the index file has non-zero length and
\* bit 0 of header.flags is clear; header is the header open has just updated.
UseIndexFile(header, idx) == Len(idx) # 0 /\ header.flags % 2 = 0
\* ScanStart with the scan always starting at the head of the file.
ScanStart_Zero(hdr, recs) == 0

\* Where db_reader stands when the scan starts: past the header it has read,
\* or at 0 if the file was blank (the header open has just written does not
\* decode as a KvsEntries, so that scan finds nothing).
ScanStart(hdr, recs) == IF FileLen(hdr, recs) # 0 THEN HeaderSize ELSE 0
\* OpenIndex that loads the index file whenever it is not empty.
OpenIndex_TrustsFile(hdr, recs, idx) ==
    IF Len(idx) # 0 THEN ReadIndex(idx)
    ELSE Reindex(recs, ScanStart(hdr, recs), EmptyIndex)

\* The index open builds (lines 131-152).
OpenIndex(hdr, recs, idx) ==
    IF UseIndexFile(OpenHeader(hdr, recs), idx) THEN ReadIndex(idx)
    ELSE Reindex(recs, ScanStart(hdr, recs), EmptyIndex)

OpenStep ==
    /\ ~alive
    /\ IF OpenFails(db_header, db_records)
       THEN /\ ret' = <<"Err", "InvalidDatabaseFormat">>
            /\ UNCHANGED <<db_header, index_file, store, db_offset, alive, handles, view>>
       ELSE /\ LET header == OpenHeader(db_header, db_records)
                   index == OpenIndex(db_header, db_records, index_file)
               IN  /\ db_header' = <<header>>
                   /\ IF UseIndexFile(header, index_file)
                      THEN index_file' = index_file
                      ELSE \E order \in Orders(DOMAIN index) :
                              index_file' = WriteIndex(index, order)
                   /\ store' = [header |-> header, index |-> index, modified |-> FALSE]
                   /\ db_offset' = FileLen(<<header>>, db_records)
            /\ alive' = TRUE
            /\ handles' = 1
            /\ ret' = <<"Ok", "open", ret[1]>>
            /\ view' = NoView
    /\ UNCHANGED <<db_records, shadow>>

Open == OpenStep /\ UNCHANGED conc /\ UNCHANGED server

\* KvsEngine::set
Set(k, v) ==
    /\ alive
    /\ Cardinality(db_records) < MaxRecs
    /\ LET m == Writeback(Cur, SetEntry(k, v))
       IN  \E order \in Orders(CompactionKeys(m)) : Install(CheckCompaction(m, order))
    /\ shadow' = [shadow EXCEPT ![k] = Some(v)]
    /\ UNCHANGED <<index_file, alive, view>>
    /\ UNCHANGED conc
    /\ UNCHANGED <<handles, server>>

\* KvsEngine::get
Get(k) ==
    /\ alive
    /\ ret' = Fetch(store.index, db_records, k)
    /\ UNCHANGED <<db_header, db_records, index_file, alive, store, db_offset,
                   shadow, view>>
    /\ UNCHANGED conc
    /\ UNCHANGED <<handles, server>>

\* Remove without the test for a missing key.
Remove_NoCheck(k) ==
    /\ alive
    /\ Cardinality(db_records) < MaxRecs
    /\ LET m == Writeback(Cur, DeleteEntry(k))
       IN  \E order \in Orders(CompactionKeys(m)) : Install(CheckCompaction(m, order))
    /\ shadow' = [shadow EXCEPT ![k] = None]
    /\ UNCHANGED <<index_file, alive, view>>
    /\ UNCHANGED conc
    /\ UNCHANGED <<handles, server>>

\* KvsEngine::remove
Remove(k) ==
    /\ alive
    /\ IF k \notin DOMAIN store.index
       THEN /\ ret' = <<"Err", "KeyNotExist", k>>
            /\ UNCHANGED <<db_header, db_records, store, db_offset, shadow>>
       ELSE /\ Cardinality(db_records) < MaxRecs
            /\ LET m == Writeback(Cur, DeleteEntry(k))
               IN  \E order \in Orders(CompactionKeys(m)) : Install(CheckCompaction(m, order))
            /\ shadow' = [shadow EXCEPT ![k] = None]
    /\ UNCHANGED <<index_file, alive, view>>
    /\ UNCHANGED conc
    /\ UNCHANGED <<handles, server>>

\* Drop that leaves the dirty bit as it is.
Close_DirtyKept ==
    /\ alive
    /\ handles = 1
    /\ IF store.modified
       THEN \E order \in Orders(DOMAIN store.index) :
               index_file' = WriteIndex(store.index, order)
       ELSE index_file' = index_file
    /\ db_header' = <<store.header>>
    /\ alive' = FALSE
    /\ handles' = 0
    /\ UNCHANGED server
    /\ store' = NoStore
    /\ db_offset' = 0
    /\ ret' = <<"dropped">>
    /\ view' = ViewOf(Cur)
    /\ UNCHANGED <<db_records, shadow>>
    /\ UNCHANGED conc

\* Drop for KvStoreInt, when the last handle is released.
Close ==
    /\ alive
    /\ handles = 1
    /\ IF store.modified
       THEN \E order \in Orders(DOMAIN store.index) :
               index_file' = WriteIndex(store.index, order)
       ELSE index_file' = index_file
    /\ db_header' = <<[store.header EXCEPT !.flags = 0]>>
    /\ alive' = FALSE
    /\ handles' = 0
    /\ UNCHANGED server
    /\ store' = NoStore
    /\ db_offset' = 0
    /\ ret' = <<"dropped">>
    /\ view' = ViewOf(Cur)
    /\ UNCHANGED <<db_records, shadow>>
    /\ UNCHANGED conc

\* What a crash may leave in the index file: what the last open wrote (stale
\* by now), or nothing.
CrashIndexFiles == {index_file, <<>>}

\* The process dies between two calls: no Drop runs.
Crash ==
    /\ alive
    /\ \E f \in CrashIndexFiles : index_file' = f
    /\ alive' = FALSE
    /\ handles' = 0
    /\ UNCHANGED server
    /\ store' = NoStore
    /\ db_offset' = 0
    /\ ret' = <<"crashed">>
    /\ view' = ViewOf(Cur)
    /\ UNCHANGED <<db_header, db_records, shadow>>
    /\ UNCHANGED conc

Next ==
    \/ Open
    \/ \E k \in Keys, v \in Vals : Set(k, v)
    \/ \E k \in Keys : Get(k)
    \/ \E k \in Keys : Remove(k)
    \/ Close
    \/ Crash

Spec == Init /\ [][Next]_vars


\* A compaction has run in this session or an earlier one.
Compacted == store.header.next_compaction_size > MIN_COMPACTION_THRESHOLD

\* ------------------------------------------------------ clones of the engine
\*
\* KvStore derives Clone: a clone shares store, compaction_guard and
\* db_offset through their Arcs.  Dropping a KvStore releases its Arcs;
\* Drop for KvStoreInt runs when the last of them goes (Close).

\* KvStore::clone
CloneStore ==
    /\ alive
    /\ handles < MaxHandles
    /\ handles' = handles + 1
    /\ UNCHANGED server
    /\ UNCHANGED <<db_header, db_records, index_file, alive, store, db_offset, ret,
                   shadow, view>>
    /\ UNCHANGED conc

\* DropClone with the body of Drop for KvStoreInt run for every KvStore
\* that is dropped.
DropClone_RunsDrop ==
    /\ alive
    /\ handles > 1
    /\ handles' = handles - 1
    /\ UNCHANGED server
    /\ IF store.modified
       THEN \E order \in Orders(DOMAIN store.index) :
               index_file' = WriteIndex(store.index, order)
       ELSE index_file' = index_file
    /\ db_header' = <<[store.header EXCEPT !.flags = 0]>>
    /\ store' = [store EXCEPT !.header.flags = 0]
    /\ ret' = <<"dropped", "clone">>
    /\ UNCHANGED <<db_records, alive, db_offset, shadow, view>>
    /\ UNCHANGED conc

\* A KvStore is dropped while another clone exists: the Arcs' counts go
\* down, KvStoreInt stays.
DropClone ==
    /\ alive
    /\ handles > 1
    /\ handles' = handles - 1
    /\ UNCHANGED server
    /\ ret' = <<"dropped", "clone">>
    /\ UNCHANGED <<db_header, db_records, index_file, alive, store, db_offset,
                   shadow, view>>
    /\ UNCHANGED conc

NextClones ==
    \/ Next
    \/ CloneStore
    \/ DropClone

SpecClones == Init /\ [][NextClones]_vars

\* C16: the dirty bit of the header on disk is set when open returns and
\* as long as a handle is alive, compactions included; it is clear once the
\* last handle has been released; so an open that reads a header with the
\* bit set follows a session that did not end in a clean close.
C16_DirtyBitCycle ==
    /\ [](alive => db_header # <<>> /\ db_header[1].flags % 2 = 1)
    /\ []((~alive /\ ret = <<"dropped">>) => db_header[1].flags % 2 = 0)
    /\ [][(Open /\ FileLen(db_header, db_records) # 0 /\ db_header[1].flags % 2 = 1)
             => ret = <<"crashed">>]_vars
\* A clean close after a session that ran a compaction.
C16_Witness ==
    /\ ~alive
    /\ ret = <<"dropped">>
    /\ db_header[1].flags = 0
    /\ db_header[1].next_compaction_size > MIN_COMPACTION_THRESHOLD
    /\ index_file # <<>>

\* C17: dropping a handle while another clone is alive writes nothing (the
\* dirty bit stays set, the index file is as it was) and the clones that
\* remain see every write made so far; the index file is flushed and the
\* dirty bit cleared only when the last clone goes, and then once.
C17_OnlyLastDropWrites ==
    [][/\ DropClone
            => /\ UNCHANGED <<db_header, db_records, index_file, store, db_offset>>
               /\ alive'
               /\ db_header'[1].flags % 2 = 1
               /\ \A k \in Keys : Fetch(store'.index, db_records', k) = <<"Ok", shadow[k]>>
       /\ (alive /\ db_header'[1].flags % 2 = 0) => (handles = 1 /\ ~alive')
       /\ (alive /\ alive') => index_file' = index_file
       /\ (alive /\ ~alive' /\ ret' = <<"dropped">>)
            => /\ handles = 1
               /\ store.modified => ReadIndex(index_file') = store.index]_vars
\* One of two clones has been dropped after writes that the index file does
\* not hold yet, a compaction among them.
C17_Witness ==
    /\ alive
    /\ ret = <<"dropped", "clone">>
    /\ handles = 1
    /\ Compacted
    /\ store.modified
    /\ store.index # EmptyIndex
    /\ ReadIndex(index_file) # store.index

\* C18: when the last handle has been released, whatever the session did
\* (writes or none, compaction or none), decoding the index file gives the
\* in-memory index of that moment, key for key and offset for offset, and
\* every offset is where a whole SET record of its key starts in the data
\* file.
C18_IndexFileIsIndex ==
    [][(alive /\ ~alive' /\ ret' = <<"dropped">>)
        => /\ ReadIndex(index_file') = store.index
           /\ Len(index_file') = Cardinality(DOMAIN store.index)
           /\ \A k \in DOMAIN store.index :
                  /\ Decodes(db_records', store.index[k])
                  /\ EntryAt(db_records', store.index[k]).kind = "SET"
                  /\ EntryAt(db_records', store.index[k]).key = k]_vars
\* Closed with two keys in the index file, after a compaction and a write
\* that superseded a record the compaction had kept.
C18_Witness ==
    /\ ~alive
    /\ ret = <<"dropped">>
    /\ Len(index_file) = 2
    /\ db_header[1].next_compaction_size > MIN_COMPACTION_THRESHOLD
    /\ view = [k \in Keys |-> <<"Ok", shadow[k]>>]
    /\ Cardinality(db_records) = 3

\* C19: an open that reads a header with the dirty bit set ignores what the
\* index file holds, builds the index by applying the records of the data
\* file in file order (a SET puts its key at the record's offset, a DELETE
\* takes the key out) and rewrites the index file, which holds that index
\* when open returns.
C19_DirtyOpenRescans ==
    [][(/\ Open
        /\ FileLen(db_header, db_records) # 0
        /\ ~OpenFails(db_header, db_records)
        /\ db_header[1].flags % 2 = 1)
            => /\ alive'
               /\ \A k \in Keys :
                      IF WholeOf(db_records, k) = {} \/ LastOf(db_records, k).entry.kind = "DELETE"
                      THEN k \notin DOMAIN store'.index
                      ELSE /\ k \in DOMAIN store'.index
                           /\ store'.index[k] = LastOf(db_records, k).offset
               /\ ReadIndex(index_file') = store'.index
               /\ Len(index_file') = Cardinality(DOMAIN store'.index)]_vars
\* Opened after a crash that left an index file older than the log: the
\* index file now holds the index of the rescan, which a DELETE has shaped.
C19_Witness ==
    /\ alive
    /\ ret = <<"Ok", "open", "crashed">>
    /\ store.index # EmptyIndex
    /\ ReadIndex(index_file) = store.index
    /\ \E r \in db_records : r.entry.kind = "DELETE" /\ r.entry.key \notin DOMAIN store.index

\* ----------------------------------------------- properties, one call at a time

\* C1: with calls issued one at a time, get(k) returns Some(v) for the value
\* of the most recent set(k, v) not followed by a successful remove(k), and
\* None if there is none; compactions included.
C1_GetReturnsLastSet ==
    [][\A k \in Keys : Get(k) => ret' = <<"Ok", shadow[k]>>]_vars
\* A get returns a value after a compaction, while another key has been removed.
C1_Witness ==
    /\ alive
    /\ Compacted
    /\ Len(ret) = 2 /\ ret[1] = "Ok" /\ ret[2] # None
    /\ \E k \in Keys : shadow[k] = None /\ \E r \in db_records : r.entry = DeleteEntry(k)

C8_RemoveMissingKey ==
    [][\A k \in Keys :
        (Remove(k) /\ k \notin DOMAIN store.index)
            => /\ ret' = <<"Err", "KeyNotExist", k>>
               /\ UNCHANGED <<db_header, db_records, index_file, store, db_offset>>]_vars
\* remove of a missing key has returned, with another key in the index.
C8_Witness ==
    /\ alive
    /\ Len(ret) = 3 /\ ret[1] = "Err" /\ ret[2] = "KeyNotExist"
    /\ ret[3] \notin DOMAIN store.index
    /\ store.index # EmptyIndex

\* The serialized size of the live set: one SET record per key that has a value.
RECURSIVE LiveBytes(_, _)
LiveBytes(val, S) ==
    IF S = {} THEN 0
    ELSE LET k == CHOOSE x \in S : TRUE
         IN  EntrySize(SetEntry(k, val[k][2])) + LiveBytes(val, S \ {k})
LiveKeys == {k \in Keys : shadow[k] # None}

\* The append of e by the next call makes db_offset reach next_compaction_size.
Crosses(e) == db_offset + EntrySize(e) >= store.header.next_compaction_size

CompactingCall(k) ==
    /\ alive
    /\ \/ \E v \in Vals : Set(k, v) /\ Crosses(SetEntry(k, v))
       \/ Remove(k) /\ k \in DOMAIN store.index /\ Crosses(DeleteEntry(k))

\* C30: an open that reads a header whose session-dirty bit is clear and
\* finds a non-empty index file takes its index from the records of the index
\* file and leaves the index file as it found it.
C30_CleanOpenReadsIndexFile ==
    [][(/\ ~alive
        /\ alive'
        /\ db_header # <<>>
        /\ db_header[1].flags % 2 = 0
        /\ Len(index_file) # 0)
        => /\ store'.index = ReadIndex(index_file)
           /\ index_file' = index_file]_vars

\* C28: when a compaction has completed, next_compaction_size, in the engine
\* and in the header on disk, is max(2 * L, MIN_COMPACTION_THRESHOLD) with L
\* the length of the rewritten data file, which is the new db_offset.
C28_ThresholdFromNewLength ==
    [][\A k \in Keys :
        CompactingCall(k)
        => /\ db_offset' = FileLen(db_header', db_records')
           /\ store'.header.next_compaction_size
                = Max({2 * db_offset', MIN_COMPACTION_THRESHOLD})
           /\ db_header'[1].next_compaction_size
                = Max({2 * db_offset', MIN_COMPACTION_THRESHOLD})]_vars

\* ------------------------------------------- data files found at open
\*
\* The engine started on a path that holds no data file, a data file that
\* the previous version of the engine created and closed, or a file that
\* is not a database.

OldHeader == [build_number |-> OLD_BUILD_NUMBER,
              next_compaction_size |-> OLD_MIN_COMPACTION_THRESHOLD,
              flags |-> 0]
DataFiles == {<<>>, <<OldHeader>>, <<Garbage>>}

InitFiles == \E hdr \in DataFiles : InitWith(hdr)

SpecFiles == InitFiles /\ [][Next]_vars

\* C14: open of a data file whose header decodes with a build_number other
\* than BUILD_NUMBER returns IncompatibleDatabaseVersion(found, expected)
\* and gives no engine.
C14_VersionMismatchRejected ==
    [][(/\ Open
        /\ FileLen(db_header, db_records) # 0
        /\ ~OpenFails(db_header, db_records)
        /\ db_header[1].build_number # BUILD_NUMBER)
            => /\ ~alive'
               /\ ret' = <<"Err", "IncompatibleDatabaseVersion",
                           db_header[1].build_number, BUILD_NUMBER>>]_vars

\* C15: open of a non-empty data file whose first bytes do not decode as a
\* header returns InvalidDatabaseFormat and leaves the files alone; open of
\* an empty or absent data file succeeds, writes a header with
\* build_number = BUILD_NUMBER and next_compaction_size =
\* MIN_COMPACTION_THRESHOLD, and gives an empty index and db_offset at the
\* end of the header.
C15_OpenOfForeignAndEmptyFile ==
    [][Open =>
        /\ (FileLen(db_header, db_records) # 0 /\ db_header[1] = Garbage)
              => /\ ret' = <<"Err", "InvalidDatabaseFormat">>
                 /\ ~alive'
                 /\ UNCHANGED <<db_header, db_records, index_file>>
        /\ FileLen(db_header, db_records) = 0
              => /\ alive' /\ ret'[1] = "Ok"
                 /\ db_header' = <<store'.header>>
                 /\ store'.header.build_number = BUILD_NUMBER
                 /\ store'.header.next_compaction_size = MIN_COMPACTION_THRESHOLD
                 /\ store'.index = EmptyIndex
                 /\ db_offset' = HeaderSize
                 /\ db_offset' = FileLen(db_header', db_records')]_vars
\* open has refused a file that is not a database.
C15_Witness ==
    /\ ~alive
    /\ ret = <<"Err", "InvalidDatabaseFormat">>
    /\ db_header = <<Garbage>>

Appendable == {SetEntry(k, v) : k \in Keys, v \in Vals}
                  \cup {DeleteEntry(k) : k \in DOMAIN store.index}
\* How many bytes of a record write_all has put in the file when the power
\* goes: the first one, or all but the last.
TornLens(e) == {1, EntrySize(e) - 1}

\* The process dies inside writeback's write_all: db_offset has been
\* advanced in memory only, the file holds the first n bytes of the record.
CrashTorn(e, n) ==
    /\ alive
    /\ Cardinality(db_records) < MaxRecs
    /\ db_records' = db_records \cup {[offset |-> db_offset, entry |-> e, written |-> n]}
    /\ \E f \in CrashIndexFiles : index_file' = f
    /\ alive' = FALSE
    /\ handles' = 0
    /\ UNCHANGED server
    /\ store' = NoStore
    /\ db_offset' = 0
    /\ ret' = <<"torn">>
    /\ view' = ViewOf(Cur)
    /\ UNCHANGED <<db_header, shadow>>
    /\ UNCHANGED conc

NextTorn ==
    \/ Next
    \/ \E e \in Appendable : \E n \in TornLens(e) : CrashTorn(e, n)

SpecTorn == Init /\ [][NextTorn]_vars

\* Where the recovery scan stops: the end of the last record that decodes.
RECURSIVE ScanEnd(_, _)
ScanEnd(recs, offset) ==
    IF ~Decodes(recs, offset) THEN offset
    ELSE ScanEnd(recs, offset + EntrySize(EntryAt(recs, offset)))

\* C5: an open that finds a torn append at the end of the data file recovers
\* every record before it and leaves db_offset at the end of the last
\* record that decodes, and whatever the new session appends is found by a
\* later recovery scan (the index always equals the index a scan builds).
C5_TornTailDiscarded ==
    [][/\ (~alive /\ alive' /\ ret = <<"torn">>)
            => /\ \A k \in Keys : Fetch(store'.index, db_records', k) = view[k]
               /\ db_offset' = ScanEnd(db_records', HeaderSize)
       /\ alive' => store'.index = Reindex(db_records', HeaderSize, EmptyIndex)]_vars

\* ------------------------------------------------ calls by several threads
\*
\* A call of set or remove by thread t goes through
\*   "reserve" (remove only: the key was found in the index),
\*   "write"   (the range [roff, roff + len) is reserved, guard held shared),
\*   "index"   (the bytes are in the file, guard held shared),
\*   "check"   (index updated, locks released, check_compaction to come),
\*   "compact" (check_compaction has called compaction),
\* and back to "idle".  compaction holds the guard and the store lock
\* exclusively from its first to its last effect, so it is one step; fetch
\* holds the guard shared while it reads the index and then the record,
\* which no step changes meanwhile, so get is one step too.

\* t holds compaction_guard in shared mode (writeback, from line 234 on).
HoldsGuard(t) == pc[t] \in {"write", "index"}

\* The call of t begins: the writes of its key that have returned by now
\* are the ones it follows.
CallsMade == Max({calls[t] : t \in Threads})
Begin(t, e) ==
    /\ req' = [req EXCEPT ![t] = e]
    /\ calls' = [calls EXCEPT ![t] = CallsMade + 1]
    /\ pred' = [pred EXCEPT ![t] = {f.id : f \in fresh[e.key]}]

\* The call of t returns: it replaces the writes it follows.
Return(t) ==
    /\ fresh' = [fresh EXCEPT ![req[t].key] =
                    {f \in @ : f.id \notin pred[t]}
                        \cup {[id |-> <<"call", calls[t]>>, eff |-> Eff(req[t])]}]
    /\ pred' = [pred EXCEPT ![t] = {}]
    /\ req' = [req EXCEPT ![t] = NoReq]
    /\ roff' = [roff EXCEPT ![t] = 0]
    /\ pc' = [pc EXCEPT ![t] = "idle"]
    /\ UNCHANGED calls

\* Reserve by a load and a later store, which a concurrent reservation
\* overtakes: the add is lost.
Reserve_LostAdd(t, e) ==
    /\ roff' = [roff EXCEPT ![t] = db_offset]
    /\ db_offset' = IF \E u \in Threads : pc[u] = "write" THEN db_offset
                    ELSE db_offset + EntrySize(e)
    /\ pc' = [pc EXCEPT ![t] = "write"]

\* writeback, line 235: db_offset.fetch_add(len)
Reserve(t, e) ==
    /\ roff' = [roff EXCEPT ![t] = db_offset]
    /\ db_offset' = db_offset + EntrySize(e)
    /\ pc' = [pc EXCEPT ![t] = "write"]

\* set called by t: up to the reservation of its range.
TSet(t, k, v) ==
    /\ alive
    /\ pc[t] = "idle"
    /\ CallsMade < MaxCalls
    /\ Begin(t, SetEntry(k, v))
    /\ Reserve(t, SetEntry(k, v))
    /\ UNCHANGED <<db_header, db_records, index_file, alive, store, ret, shadow, view, fresh>>
    /\ UNCHANGED locks
    /\ UNCHANGED <<handles, server>>

\* remove called by t: the test of line 88.
TRemove(t, k) ==
    /\ alive
    /\ pc[t] = "idle"
    /\ CallsMade < MaxCalls
    /\ IF k \notin DOMAIN store.index
       THEN /\ ret' = <<"Err", "KeyNotExist", k>>
            /\ UNCHANGED <<pc, req, calls, pred>>
       ELSE /\ Begin(t, DeleteEntry(k))
            /\ pc' = [pc EXCEPT ![t] = "reserve"]
            /\ UNCHANGED ret
    /\ UNCHANGED <<db_header, db_records, index_file, alive, store, db_offset,
                   shadow, view, roff, fresh>>
    /\ UNCHANGED locks
    /\ UNCHANGED <<handles, server>>

\* remove: writeback reserves the range of the DELETE.
TReserve(t) ==
    /\ alive
    /\ pc[t] = "reserve"
    /\ Reserve(t, req[t])
    /\ UNCHANGED <<db_header, db_records, index_file, alive, store, ret, shadow, view,
                   req, calls, pred, fresh>>
    /\ UNCHANGED locks
    /\ UNCHANGED <<handles, server>>

\* writeback, lines 237-238: the bytes go to the reserved range.
TWrite(t) ==
    /\ alive
    /\ pc[t] = "write"
    /\ db_records' = db_records \cup {Whole(roff[t], req[t])}
    /\ pc' = [pc EXCEPT ![t] = "index"]
    /\ UNCHANGED <<db_header, index_file, alive, store, db_offset, ret, shadow, view,
                   req, roff, calls, pred, fresh>>
    /\ UNCHANGED locks
    /\ UNCHANGED <<handles, server>>

\* writeback, lines 240-256: the index update under the store lock.
TIndex(t) ==
    /\ alive
    /\ pc[t] = "index"
    /\ store' = [store EXCEPT !.index = IndexUpdate(store.index, req[t], roff[t]),
                              !.modified = TRUE]
    /\ pc' = [pc EXCEPT ![t] = "check"]
    /\ UNCHANGED <<db_header, db_records, index_file, alive, db_offset, ret, shadow, view,
                   req, roff, calls, pred, fresh>>
    /\ UNCHANGED locks
    /\ UNCHANGED <<handles, server>>

\* check_compaction: the call returns, or goes on to compaction.
TCheck(t) ==
    /\ alive
    /\ pc[t] = "check"
    /\ IF NeedsCompaction(Cur)
       THEN /\ pc' = [pc EXCEPT ![t] = "compact"]
            /\ UNCHANGED <<ret, req, roff, calls, pred, fresh>>
       ELSE /\ Return(t)
            /\ ret' = <<"Ok">>
    /\ UNCHANGED <<db_header, db_records, index_file, alive, store, db_offset, shadow, view>>
    /\ UNCHANGED locks
    /\ UNCHANGED <<handles, server>>

\* compaction, once no writeback or fetch holds the guard; then the call returns.
TCompact(t) ==
    /\ alive
    /\ pc[t] = "compact"
    /\ \A u \in Threads : ~HoldsGuard(u)
    /\ \E order \in Orders(CompactionKeys(Cur)) : Install(Compaction(Cur, order))
    /\ Return(t)
    /\ UNCHANGED <<index_file, alive, shadow, view>>
    /\ UNCHANGED locks
    /\ UNCHANGED <<handles, server>>

\* open, at the start of a session of several threads.
OpenT ==
    /\ OpenStep
    /\ UNCHANGED server
    /\ fresh' = FreshAt(ViewOf(Machine(db_header', db_records', store', db_offset')))
    /\ UNCHANGED <<pc, req, roff, calls, pred>>
    /\ UNCHANGED locks

NextConc ==
    \/ OpenT
    \/ \E t \in Threads, k \in Keys, v \in Vals : TSet(t, k, v)
    \/ \E t \in Threads, k \in Keys : TRemove(t, k)
    \/ \E t \in Threads : TReserve(t)
    \/ \E t \in Threads : TWrite(t)
    \/ \E t \in Threads : TIndex(t)
    \/ \E t \in Threads : TCheck(t)
    \/ \E t \in Threads : TCompact(t)
    \/ \E k \in Keys : Get(k)

SpecConc == Init /\ [][NextConc]_vars

\* ------------------------------------------ properties, several threads

AllIdle == \A t \in Threads : pc[t] = "idle"

\* What a call on key k may observe: the effect of a returned write that no
\* returned write follows, or of a write in progress.
Observable(k) ==
    {f.eff : f \in fresh[k]}
        \cup {Eff(req[t]) : t \in {u \in Threads : pc[u] # "idle" /\ req[u].key = k}}

\* C6: a call B on a key that begins after a call A on that key has returned
\* observes A's effect: what a get returns (and the absence a failing remove
\* reports) is the effect of A or of a write that did not return before A
\* began, whatever runs concurrently, compaction included.
C6_RealTimeOrder ==
    [][\A k \in Keys :
        /\ Get(k) => \E e \in Observable(k) : ret' = <<"Ok", e>>
        /\ (\E t \in Threads : TRemove(t, k) /\ k \notin DOMAIN store.index)
               => None \in Observable(k)]_vars
\* A get returns a value while a set and a remove of its key are both in
\* progress and a compaction has run.
C6_Witness ==
    /\ alive
    /\ Compacted
    /\ Len(ret) = 2 /\ ret[1] = "Ok" /\ ret[2] # None
    /\ \E t, u \in Threads :
          /\ pc[t] # "idle" /\ pc[u] # "idle"
          /\ req[t].kind = "SET" /\ req[u].kind = "DELETE" /\ req[t].key = req[u].key
          /\ Fetch(store.index, db_records, req[t].key) = <<"Ok", ret[2]>>

\* C7: once the concurrent set and remove calls have all returned, the index
\* is what replaying the records in file order gives, that is the index a
\* recovery scan of the data file builds.
C7_IndexMatchesFileOrder ==
    (alive /\ AllIdle) => store.index = Reindex(db_records, HeaderSize, EmptyIndex)

\* C12: at every point of every interleaving of set, remove, get and
\* compaction, each key of the in-memory index maps to an offset where a
\* whole SET record of that key lies in the data file, and no call returns
\* InvalidDataEntry.
C12_IndexPointsAtSet ==
    alive =>
        /\ \A k \in DOMAIN store.index :
               /\ Decodes(db_records, store.index[k])
               /\ EntryAt(db_records, store.index[k]).kind = "SET"
               /\ EntryAt(db_records, store.index[k]).key = k
               /\ Cardinality({r \in db_records : r.offset = store.index[k]}) = 1
        /\ ~(Len(ret) = 2 /\ ret[1] = "Err" /\ ret[2] = "InvalidDataEntry")
\* After a compaction that moved both keys' records: a thread has reserved
\* a range for a new value of a key and not yet written it, and a get of
\* that key has returned the value the index still points at.
C12_Witness ==
    /\ alive
    /\ Compacted
    /\ DOMAIN store.index = Keys
    /\ Len(ret) = 2 /\ ret[1] = "Ok" /\ ret[2] # None
    /\ \E t \in Threads :
          /\ pc[t] = "write"
          /\ req[t].kind = "SET"
          /\ Fetch(store.index, db_records, req[t].key) = ret
          /\ ret[2] # Some(req[t].value)

\* C9: a compaction that runs to its end leaves what get returns for every
\* key as it was, a data file made of the header and exactly one SET record
\* per key of the index, no DELETE, and every index entry at the offset of
\* its key's record.
C9_CompactionPreserves ==
    [][\A t \in Threads :
        (TCompact(t) /\ NeedsCompaction(Cur))
            => /\ ViewOf(Machine(db_header', db_records', store', db_offset')) = ViewOf(Cur)
               /\ DOMAIN store'.index = DOMAIN store.index
               /\ db_header' = <<store'.header>>
               /\ \A r \in db_records' :
                      /\ r.entry.kind = "SET"
                      /\ r.written = EntrySize(r.entry)
                      /\ r.entry.key \in DOMAIN store'.index
                      /\ store'.index[r.entry.key] = r.offset
               /\ Cardinality(db_records') = Cardinality(DOMAIN store'.index)
               /\ ScanEnd(db_records', HeaderSize) = FileLen(db_header', db_records')
               /\ db_offset' = FileLen(db_header', db_records')]_vars
\* A compaction has just rewritten a log of two keys that held superseded records.
C9_Witness ==
    /\ alive
    /\ Compacted
    /\ AllIdle
    /\ DOMAIN store.index = Keys
    /\ Cardinality(db_records) = 2
    /\ db_offset = FileLen(db_header, db_records)
    /\ CallsMade = 3

\* The byte ranges reserved since the data file was last rewritten: those of
\* the records in the file and those of the appenders that have not written yet.
Reserved ==
    {[lo |-> r.offset, hi |-> r.offset + EntrySize(r.entry)] : r \in db_records}
        \cup {[lo |-> roff[t], hi |-> roff[t] + EntrySize(req[t])] :
                 t \in {u \in Threads : pc[u] = "write"}}

\* C31: under any interleaving of concurrent appenders the ranges reserved by
\* fetch_add are pairwise disjoint, contiguous from the end of the header up to
\* db_offset, one per record and per appender that has yet to write, and an
\* appender's write puts its record in its own range and nowhere else.
C31_DisjointContiguousRanges ==
    /\ [](alive =>
            /\ \A a, b \in Reserved : a # b => (a.hi <= b.lo \/ b.hi <= a.lo)
            /\ \A a \in Reserved :
                  /\ a.lo >= HeaderSize
                  /\ a.lo = HeaderSize \/ \E b \in Reserved : b.hi = a.lo
                  /\ a.hi <= db_offset
            /\ db_offset = Max({HeaderSize} \cup {a.hi : a \in Reserved})
            /\ Cardinality(Reserved)
                  = Cardinality(db_records) + Cardinality({u \in Threads : pc[u] = "write"}))
    /\ [][\A t \in Threads :
            TWrite(t) => /\ db_records' = db_records \cup {Whole(roff[t], req[t])}
                         /\ db_header' = db_header]_vars
\* Two appenders hold reservations at once, after an earlier record: three
\* ranges, two of them not written yet.
C31_Witness ==
    /\ alive
    /\ \A t \in Threads : pc[t] = "write"
    /\ Cardinality(Reserved) = 3

\* C32: once the concurrent calls have all returned, a key whose record at
\* the largest reserved offset is a SET is mapped by the index to that offset,
\* whatever order the index updates were applied in (so it is for concurrent
\* sets of one key with no remove among them), and no index update of
\* writeback lowers the offset a key is mapped to.
C32_LargestOffsetWins ==
    /\ [](alive /\ AllIdle =>
            \A k \in Keys :
                (WholeOf(db_records, k) # {} /\ LastOf(db_records, k).entry.kind = "SET")
                    => /\ k \in DOMAIN store.index
                       /\ store.index[k] = LastOf(db_records, k).offset)
    /\ [][\A t \in Threads :
            TIndex(t) => \A k \in DOMAIN store.index \cap DOMAIN store'.index :
                            store'.index[k] >= store.index[k]]_vars
\* Two sets of one key: the one that reserved the larger offset has updated
\* the index, the one that reserved the smaller offset has its update to come.
C32_Witness ==
    /\ alive
    /\ \E t, u \in Threads :
          /\ pc[t] = "index" /\ pc[u] = "check"
          /\ req[t].kind = "SET" /\ req[u].kind = "SET" /\ req[t].key = req[u].key
          /\ roff[t] < roff[u]
          /\ store.index[req[u].key] = roff[u]

\* C38: of two concurrent calls of remove on one key, one returns Ok and the
\* other KeyNotExist, and one DELETE record is appended: the two calls are
\* never both past the test of the index (line 88), after which a call
\* appends its DELETE record and returns Ok.
C38_OneRemoveWins ==
    alive =>
        \A t, u \in Threads :
            (/\ t # u
             /\ pc[t] # "idle" /\ pc[u] # "idle"
             /\ req[t].kind = "DELETE" /\ req[u].kind = "DELETE")
                => req[t].key # req[u].key

\* ------------------------------------------ a write that fails
\*
\* handle.write_all (line 238) returns an I/O error (the disk is full, the
\* device fails) after n bytes of the record, 0 included: the `?` returns the
\* error from writeback and from set or remove; the index is not updated and
\* db_offset keeps the value fetch_add gave it.

\* The bytes of the record a failed write leaves in the file.
Partial(o, e, n) ==
    IF n = 0 THEN {} ELSE {[offset |-> o, entry |-> e, written |-> n]}

\* writeback of t fails in write_all; the call returns the error.
TWriteFails(t, n) ==
    /\ alive
    /\ pc[t] = "write"
    /\ db_records' = db_records \cup Partial(roff[t], req[t], n)
    /\ ret' = <<"Err", "IOError">>
    /\ pc' = [pc EXCEPT ![t] = "idle"]
    /\ req' = [req EXCEPT ![t] = NoReq]
    /\ roff' = [roff EXCEPT ![t] = 0]
    /\ pred' = [pred EXCEPT ![t] = {}]
    /\ UNCHANGED <<db_header, index_file, alive, store, db_offset, shadow, view, calls, fresh>>
    /\ UNCHANGED locks
    /\ UNCHANGED <<handles, server>>

NextIO ==
    \/ NextConc
    \/ \E t \in Threads : \E n \in {0} \cup TornLens(req[t]) : TWriteFails(t, n)

SpecIO == Init /\ [][NextIO]_vars

\* C37: whenever no append stands between its reservation and the end of its
\* write, a call that returned an I/O error from the write included, the data
\* file starts with a header that decodes, the records from the end of the
\* header decode one after the other up to db_offset with no gap and no
\* unwritten range, and nothing lies beyond db_offset.
C37_LogContiguousUpToOffset ==
    (alive /\ \A t \in Threads : pc[t] # "write")
        => /\ db_header # <<>>
           /\ db_header[1] # Garbage
           /\ \A r \in db_records : r.written = EntrySize(r.entry)
           /\ ScanEnd(db_records, HeaderSize) = db_offset
           /\ FileLen(db_header, db_records) = db_offset

\* ------------------------------------------ a damaged data file
\*
\* The bytes of a record the index points to are changed under the running
\* engine (a failing disk, another writer): at its offset the file then holds
\* bytes that do not decode, a DELETE record, or a SET record of another key.
\* The length of the file stays what it was.

\* The index entry of key j points to a SET record of j.
Intact(recs, index, j) ==
    /\ Decodes(recs, index[j])
    /\ EntryAt(recs, index[j]).kind = "SET"
    /\ EntryAt(recs, index[j]).key = j

Damages == {"junk", "delete", "other"}
OtherKey(k) == CHOOSE j \in Keys : j # k

\* What the range of the SET record e at offset o holds after the damage.
\* Bytes that decode as nothing are kept as a record of which not all bytes
\* are there: for junk the whole range, for delete the bytes that follow the
\* shorter DELETE record.
Damaged(o, e, how) ==
    IF how = "junk"
    THEN {[offset |-> o, entry |-> SetEntry(e.key, [e.value EXCEPT !.n = @ + 1]),
           written |-> EntrySize(e)]}
    ELSE IF how = "delete"
    THEN {Whole(o, DeleteEntry(e.key)),
          [offset |-> o + EntrySize(DeleteEntry(e.key)), entry |-> e,
           written |-> EntrySize(e) - EntrySize(DeleteEntry(e.key))]}
    ELSE {Whole(o, SetEntry(OtherKey(e.key), e.value))}

\* The record of key k is damaged, while no other entry of the index is bad.
Damage(k, how) ==
    /\ alive
    /\ k \in DOMAIN store.index
    /\ \A j \in DOMAIN store.index : Intact(db_records, store.index, j)
    /\ LET o == store.index[k]
           e == EntryAt(db_records, o)
       IN  db_records' = (db_records \ {Whole(o, e)}) \cup Damaged(o, e, how)
    /\ UNCHANGED <<db_header, index_file, alive, handles, store, db_offset, ret, shadow, view,
                   server>>
    /\ UNCHANGED conc

\* One session of the engine, in which the damage happens.
NextDamage ==
    \/ Open
    \/ \E k \in Keys, v \in Vals : Set(k, v)
    \/ \E k \in Keys : Get(k)
    \/ \E k \in Keys : Remove(k)
    \/ \E k \in Keys, how \in Damages : Damage(k, how)

SpecDamage == Init /\ [][NextDamage]_vars

\* C35: a compaction that finds, for a key of the index, bytes that do not
\* decode, a DELETE record or a SET record of another key returns
\* InvalidDataEntry, and so does the set or remove that ran it.
C35_CompactionRejectsBadEntries ==
    [][\A e \in Appendable :
        LET m == Writeback(Cur, e)
        IN  (/\ alive
             /\ IF e.kind = "SET" THEN Set(e.key, e.value) ELSE Remove(e.key)
             /\ NeedsCompaction(m)
             /\ \E j \in DOMAIN m.store.index : ~Intact(m.recs, m.store.index, j))
                => ret' = <<"Err", "InvalidDataEntry">>]_vars

\* The index has an entry for k that does not point to a SET record of k.
BadEntry(k) == k \in DOMAIN store.index /\ ~Intact(db_records, store.index, k)

\* get of a key with a bad entry returns InvalidDataEntry and changes
\* nothing; while the bad entry is there, get of another key returns what its
\* record holds, and set and remove of another key return Ok and update the
\* index: every such call if always, else those that do not run compaction.
GetFailureIsLocal(always) ==
    \A k \in Keys :
        /\ (Get(k) /\ BadEntry(k))
              => /\ ret' = <<"Err", "InvalidDataEntry">>
                 /\ UNCHANGED <<db_header, db_records, index_file, store, db_offset>>
        /\ \A j \in Keys \ {k} :
              /\ (BadEntry(k) /\ Get(j) /\ ~BadEntry(j))
                    => ret' = IF j \in DOMAIN store.index
                              THEN <<"Ok", Some(EntryAt(db_records, store.index[j]).value)>>
                              ELSE <<"Ok", None>>
              /\ \A v \in Vals :
                    (BadEntry(k) /\ Set(j, v) /\ (always \/ ~Crosses(SetEntry(j, v))))
                        => ret' = <<"Ok">>
              /\ (/\ BadEntry(k) /\ Remove(j) /\ j \in DOMAIN store.index
                  /\ (always \/ ~Crosses(DeleteEntry(j))))
                    => ret' = <<"Ok">>

\* C36 as stated: if the index maps k to bytes that are not a SET record of
\* k, get(k) returns InvalidDataEntry and never a value, changes neither the
\* index, db_offset nor the data file, and every later get, set and remove of
\* another key succeeds.
C36_GetFailsOthersSucceed == [][GetFailureIsLocal(TRUE)]_vars

\* C36, amended: the same, with the later set and remove calls limited to
\* those whose append leaves db_offset below the threshold; the call that
\* runs compaction meets the bad entry itself.
C36_GetFailsOthersGoOn == [][GetFailureIsLocal(FALSE)]_vars

\* get of a key whose record was changed into a SET of another key has
\* returned InvalidDataEntry, and the other key is still in the index.
C36_Witness ==
    /\ alive
    /\ ret = <<"Err", "InvalidDataEntry">>
    /\ db_offset < store.header.next_compaction_size
    /\ \E k \in Keys :
          /\ BadEntry(k)
          /\ Decodes(db_records, store.index[k])
          /\ EntryAt(db_records, store.index[k]).kind = "SET"
          /\ OtherKey(k) \in DOMAIN store.index

\* ------------------------------------------ crashes of a running process

\* The threads of a process that has died, and the record of its writes.
Halt ==
    /\ alive' = FALSE
    /\ handles' = 0
    /\ UNCHANGED server
    /\ store' = NoStore
    /\ db_offset' = 0
    /\ view' = ViewOf(Cur)
    /\ pc' = [t \in Threads |-> "idle"]
    /\ req' = [t \in Threads |-> NoReq]
    /\ roff' = [t \in Threads |-> 0]
    /\ pred' = [t \in Threads |-> {}]
    /\ fresh' = FreshAt(NoView)
    /\ locks' = [t \in Threads |-> {}]
    /\ UNCHANGED <<calls, shadow>>

\* The process dies at any point of its threads' calls, outside compaction.
CrashAny ==
    /\ alive
    /\ \E f \in CrashIndexFiles : index_file' = f
    /\ ret' = <<"crashed">>
    /\ Halt
    /\ UNCHANGED <<db_header, db_records>>

\* The data file when compaction has truncated it (line 206) and made the
\* first s of its writes: the header (line 209), then the records in order.
CompactionCut(m, order, s) ==
    IF s = 0 THEN [hdr |-> <<>>, recs |-> {}]
    ELSE LET val == [k \in CompactionKeys(m) |-> EntryAt(m.recs, m.store.index[k]).value]
         IN  [hdr |-> <<m.store.header>>,
              recs |-> Rewrite(SubSeq(order, 1, s - 1), val, HeaderSize,
                               [recs |-> {}, index |-> EmptyIndex]).recs]

\* The process dies inside compaction, after the truncation and s writes.
CrashInCompaction(t, order, s) ==
    /\ alive
    /\ pc[t] = "compact"
    /\ \A u \in Threads : ~HoldsGuard(u)
    /\ NeedsCompaction(Cur)
    /\ \A k \in CompactionKeys(Cur) : EntryAt(db_records, store.index[k]).key = k
    /\ db_header' = CompactionCut(Cur, order, s).hdr
    /\ db_records' = CompactionCut(Cur, order, s).recs
    /\ \E f \in CrashIndexFiles : index_file' = f
    /\ ret' = <<"crashed", "compaction">>
    /\ Halt

NextCrash ==
    \/ NextConc
    \/ CrashAny
    \/ \E t \in Threads : \E order \in Orders(CompactionKeys(Cur)) :
          \E s \in 0 .. Len(order) + 1 : CrashInCompaction(t, order, s)

SpecCrash == Init /\ [][NextCrash]_vars

\* The process dies between two steps of its threads while no writeback is
\* between its fetch_add and the end of its write_all: every record of the
\* data file is whole and no range of it is left unwritten.
CrashWhole ==
    /\ \A t \in Threads : pc[t] # "write"
    /\ CrashAny

NextDie ==
    \/ NextConc
    \/ CrashWhole

SpecDie == Init /\ [][NextDie]_vars

C4_HoleDoesNotHideRecords ==
    [][(~alive /\ alive' /\ ret = <<"crashed">>)
        => \A k \in Keys :
              IF WholeOf(db_records, k) = {} \/ LastOf(db_records, k).entry.kind = "DELETE"
              THEN k \notin DOMAIN store'.index
              ELSE k \in DOMAIN store'.index /\ store'.index[k] = LastOf(db_records, k).offset]_vars

\* C10: when the process dies inside compaction the data file is the whole
\* file of before or the whole rewritten file, and the next open recovers
\* every key with its latest value.
C10_CompactionAllOrNothing ==
    [][/\ \A t \in Threads :
            (alive /\ pc[t] = "compact" /\ ~alive')
                => \/ <<db_header', db_records'>> = <<db_header, db_records>>
                   \/ \E order \in Orders(CompactionKeys(Cur)) :
                          db_records' = Compaction(Cur, order).recs
       /\ (~alive /\ alive' /\ ret = <<"crashed", "compaction">>)
            => \A k \in Keys : Fetch(store'.index, db_records', k) = view[k]]_vars

\* ------------------------------------------------------------- the locks
\*
\* The calls of several threads again, now with every acquisition and
\* release of the two RwLocks as a step of its own:
\*   compaction_guard  read: writeback (234), fetch (261); write: compaction (186)
\*   store             read: remove (88), check_compaction (178), fetch (262);
\*                     write: writeback (240), compaction (187)
\* A call of thread t stands at
\*   "r_check" remove asks for store.read          "r_test"  holds it
\*   "w_guard" writeback asks for guard.read       "w_add"   holds it, fetch_add to come
\*   "write"   range reserved, write_all to come   "w_store" asks for store.write
\*   "index"   holds store.write                   "check"   asks for store.read
\*   "c_test"  holds store.read                    "compact" asks for guard.write
\*   "c_guard" holds it, asks for store.write      "c_store" holds both
\*   "f_guard" fetch asks for guard.read           "f_index" asks for store.read
\*   "f_read"  holds store.read                    "f_file"  reads the record

GuardLock == "compaction_guard"
StoreLock == "store"

\* RwLock::read returns once no thread holds the lock for writing.
CanRead(l) == \A u \in Threads : <<l, "write">> \notin locks[u]
\* CanWrite that waits for the writers only, not for the readers.
CanWrite_OverReaders(l) == \A u \in Threads : <<l, "write">> \notin locks[u]

\* RwLock::write returns once no thread, the caller included, holds the lock.
CanWrite(l) == \A u \in Threads : <<l, "read">> \notin locks[u] /\ <<l, "write">> \notin locks[u]
Granted(l, m) == IF m = "read" THEN CanRead(l) ELSE CanWrite(l)

\* The lock and mode the call of t asks for at its next step.
Wants(t) ==
    CASE pc[t] = "r_check" -> <<StoreLock, "read">>
      [] pc[t] = "w_guard" -> <<GuardLock, "read">>
      [] pc[t] = "w_store" -> <<StoreLock, "write">>
      [] pc[t] = "check"   -> <<StoreLock, "read">>
      [] pc[t] = "compact" -> <<GuardLock, "write">>
      [] pc[t] = "c_guard" -> <<StoreLock, "write">>
      [] pc[t] = "f_guard" -> <<GuardLock, "read">>
      [] pc[t] = "f_index" -> <<StoreLock, "read">>
      [] OTHER             -> <<"none", "none">>

\* t gets the lock it asks for and goes on to next.
Lock(t, next) ==
    /\ Wants(t)[1] # "none"
    /\ Granted(Wants(t)[1], Wants(t)[2])
    /\ locks' = [locks EXCEPT ![t] = @ \cup {Wants(t)}]
    /\ pc' = [pc EXCEPT ![t] = next]
Unlock(t, gs) == locks' = [locks EXCEPT ![t] = @ \ gs]

\* check_compaction with the guard of store.read() living on into the call
\* of compaction (as in an if let or a match on the locked value).
AfterCheck_Kept(held) == held

\* check_compaction, line 178: store.read() is a temporary of the if
\* condition, dropped before the block that calls compaction is entered.
AfterCheck(held) == held \ {<<StoreLock, "read">>}

\* Everything but the threads' positions and locks.
data == <<db_header, db_records, index_file, alive, handles, store, db_offset, ret, shadow, view,
          server>>

\* The call of t begins (which writes it follows is not recorded here).
LBegin(t, e) ==
    /\ req' = [req EXCEPT ![t] = e]
    /\ calls' = [calls EXCEPT ![t] = CallsMade + 1]

\* set called by t.
LSet(t, k, v) ==
    /\ alive /\ pc[t] = "idle" /\ CallsMade < MaxLockCalls
    /\ LBegin(t, SetEntry(k, v))
    /\ pc' = [pc EXCEPT ![t] = "w_guard"]
    /\ UNCHANGED <<data, roff, pred, fresh, locks>>

\* remove called by t.
LRemove(t, k) ==
    /\ alive /\ pc[t] = "idle" /\ CallsMade < MaxLockCalls
    /\ LBegin(t, DeleteEntry(k))
    /\ pc' = [pc EXCEPT ![t] = "r_check"]
    /\ UNCHANGED <<data, roff, pred, fresh, locks>>

\* get called by t.
LGet(t, k) ==
    /\ alive /\ pc[t] = "idle"
    /\ req' = [req EXCEPT ![t] = [kind |-> "GET", key |-> k]]
    /\ pc' = [pc EXCEPT ![t] = "f_guard"]
    /\ UNCHANGED <<data, roff, calls, pred, fresh, locks>>

\* The call of t returns.
Leave(t) ==
    /\ pc' = [pc EXCEPT ![t] = "idle"]
    /\ req' = [req EXCEPT ![t] = NoReq]
    /\ roff' = [roff EXCEPT ![t] = 0]
    /\ pred' = [pred EXCEPT ![t] = {}]
    /\ UNCHANGED <<calls, fresh>>

\* remove, line 88: store.read()
LRemoveLock(t) ==
    /\ pc[t] = "r_check"
    /\ Lock(t, "r_test")
    /\ UNCHANGED <<data, req, roff, calls, pred, fresh>>

\* remove, line 88: contains_key, the guard dropped, KeyNotExist or on to writeback.
LRemoveTest(t) ==
    /\ pc[t] = "r_test"
    /\ Unlock(t, {<<StoreLock, "read">>})
    /\ IF req[t].key \notin DOMAIN store.index
       THEN /\ ret' = <<"Err", "KeyNotExist", req[t].key>>
            /\ Leave(t)
       ELSE /\ pc' = [pc EXCEPT ![t] = "w_guard"]
            /\ UNCHANGED <<ret, req, roff, calls, pred, fresh>>
    /\ UNCHANGED <<db_header, db_records, index_file, alive, store, db_offset, shadow, view>>
    /\ UNCHANGED <<handles, server>>

\* writeback, line 234: compaction_guard.read()
LWritebackLock(t) ==
    /\ pc[t] = "w_guard"
    /\ Lock(t, "w_add")
    /\ UNCHANGED <<data, req, roff, calls, pred, fresh>>

\* writeback, line 235: db_offset.fetch_add(len)
LReserve(t) ==
    /\ pc[t] = "w_add"
    /\ Reserve(t, req[t])
    /\ UNCHANGED <<db_header, db_records, index_file, alive, store, ret, shadow, view,
                   req, calls, pred, fresh, locks>>
    /\ UNCHANGED <<handles, server>>

\* writeback, lines 237-238: seek and write_all
LWrite(t) ==
    /\ pc[t] = "write"
    /\ db_records' = db_records \cup {Whole(roff[t], req[t])}
    /\ pc' = [pc EXCEPT ![t] = "w_store"]
    /\ UNCHANGED <<db_header, index_file, alive, store, db_offset, ret, shadow, view,
                   req, roff, calls, pred, fresh, locks>>
    /\ UNCHANGED <<handles, server>>

\* writeback, line 240: store.write()
LIndexLock(t) ==
    /\ pc[t] = "w_store"
    /\ Lock(t, "index")
    /\ UNCHANGED <<data, req, roff, calls, pred, fresh>>

\* writeback, lines 241-257: the index update; both guards dropped at the end.
LIndex(t) ==
    /\ pc[t] = "index"
    /\ store' = [store EXCEPT !.index = IndexUpdate(store.index, req[t], roff[t]),
                              !.modified = TRUE]
    /\ Unlock(t, {<<StoreLock, "write">>, <<GuardLock, "read">>})
    /\ pc' = [pc EXCEPT ![t] = "check"]
    /\ UNCHANGED <<db_header, db_records, index_file, alive, db_offset, ret, shadow, view,
                   req, roff, calls, pred, fresh>>
    /\ UNCHANGED <<handles, server>>

\* check_compaction, line 178: store.read()
LCheckLock(t) ==
    /\ pc[t] = "check"
    /\ Lock(t, "c_test")
    /\ UNCHANGED <<data, req, roff, calls, pred, fresh>>

\* check_compaction, lines 178-181: the comparison; the call returns or
\* goes on to compaction.
LCheckTest(t) ==
    /\ pc[t] = "c_test"
    /\ locks' = [locks EXCEPT ![t] = AfterCheck(@)]
    /\ IF NeedsCompaction(Cur)
       THEN /\ pc' = [pc EXCEPT ![t] = "compact"]
            /\ UNCHANGED <<ret, req, roff, calls, pred, fresh>>
       ELSE /\ Leave(t)
            /\ ret' = <<"Ok">>
    /\ UNCHANGED <<db_header, db_records, index_file, alive, store, db_offset, shadow, view>>
    /\ UNCHANGED <<handles, server>>

\* compaction, line 186: compaction_guard.write()
LCompactGuard(t) ==
    /\ pc[t] = "compact"
    /\ Lock(t, "c_guard")
    /\ UNCHANGED <<data, req, roff, calls, pred, fresh>>

\* compaction, line 187: store.write()
LCompactStore(t) ==
    /\ pc[t] = "c_guard"
    /\ Lock(t, "c_store")
    /\ UNCHANGED <<data, req, roff, calls, pred, fresh>>

\* compaction, lines 189-227, then both guards dropped and the call returns.
LCompact(t) ==
    /\ pc[t] = "c_store"
    /\ \E order \in Orders(CompactionKeys(Cur)) : Install(Compaction(Cur, order))
    /\ Unlock(t, {<<StoreLock, "write">>, <<GuardLock, "write">>})
    /\ Leave(t)
    /\ UNCHANGED <<index_file, alive, shadow, view>>
    /\ UNCHANGED <<handles, server>>

\* fetch, line 261: compaction_guard.read()
LFetchGuard(t) ==
    /\ pc[t] = "f_guard"
    /\ Lock(t, "f_index")
    /\ UNCHANGED <<data, req, roff, calls, pred, fresh>>

\* fetch, line 262: store.read()
LFetchLock(t) ==
    /\ pc[t] = "f_index"
    /\ Lock(t, "f_read")
    /\ UNCHANGED <<data, req, roff, calls, pred, fresh>>

\* fetch, line 262: index.get(&key).cloned(), the guard of store dropped at
\* the end of the statement; roff keeps the offset (0: no entry).
LFetchIndex(t) ==
    /\ pc[t] = "f_read"
    /\ roff' = [roff EXCEPT ![t] = IF req[t].key \in DOMAIN store.index
                                   THEN store.index[req[t].key] ELSE 0]
    /\ Unlock(t, {<<StoreLock, "read">>})
    /\ pc' = [pc EXCEPT ![t] = "f_file"]
    /\ UNCHANGED <<data, req, calls, pred, fresh>>

\* fetch, lines 263-272: the record at the offset read; the guard dropped.
LFetchFile(t) ==
    /\ pc[t] = "f_file"
    /\ ret' = IF roff[t] = 0 THEN <<"Ok", None>>
              ELSE IF /\ Decodes(db_records, roff[t])
                      /\ EntryAt(db_records, roff[t]).kind = "SET"
                      /\ EntryAt(db_records, roff[t]).key = req[t].key
                   THEN <<"Ok", Some(EntryAt(db_records, roff[t]).value)>>
                   ELSE <<"Err", "InvalidDataEntry">>
    /\ Unlock(t, {<<GuardLock, "read">>})
    /\ Leave(t)
    /\ UNCHANGED <<db_header, db_records, index_file, alive, store, db_offset, shadow, view>>
    /\ UNCHANGED <<handles, server>>

\* The next step of the call t is in.
LStep(t) ==
    \/ LRemoveLock(t) \/ LRemoveTest(t)
    \/ LWritebackLock(t) \/ LReserve(t) \/ LWrite(t) \/ LIndexLock(t) \/ LIndex(t)
    \/ LCheckLock(t) \/ LCheckTest(t)
    \/ LCompactGuard(t) \/ LCompactStore(t) \/ LCompact(t)
    \/ LFetchGuard(t) \/ LFetchLock(t) \/ LFetchIndex(t) \/ LFetchFile(t)

NextLock ==
    \/ Open
    \/ \E t \in Threads, k \in Keys, v \in Vals : LSet(t, k, v)
    \/ \E t \in Threads, k \in Keys : LRemove(t, k)
    \/ \E t \in Threads, k \in Keys : LGet(t, k)
    \/ \E t \in Threads : LStep(t)

\* Every thread that can take a step of its call infinitely often does: the
\* scheduler runs every thread, and a lock that is free again and again is
\* in the end given to each thread that waits for it.
SpecLock == Init /\ [][NextLock]_vars /\ \A t \in Threads : SF_vars(LStep(t))

\* ------------------------------------------------ properties of the locks

\* A thread waits to write lock l.
WriterWaits(l) == \E u \in Threads : Wants(u) = <<l, "write">>
\* The call of t can take its next step even if the locks make readers
\* queue behind a waiting writer.
CanGo(t) ==
    /\ pc[t] # "idle"
    /\ \/ Wants(t)[1] = "none"
       \/ /\ Granted(Wants(t)[1], Wants(t)[2])
          /\ Wants(t)[2] = "read" => ~WriterWaits(Wants(t)[1])

Touching ==
    {"r_test", "w_add", "write", "w_store", "index", "c_test", "f_index", "f_read", "f_file"}
\* The positions of writeback from its reservation to its index update.
Appending == {"w_add", "write", "w_store", "index"}

\* C33: while a compaction holds both locks (from reading the index to
\* resetting db_offset) no other thread reads a record, reads or updates the
\* index, reserves an offset or writes to the data file; an append makes its
\* reservation, its write and its index update under one shared hold of the
\* compaction guard, which it takes before the reservation and drops after
\* the index update; so no reservation is outstanding when a compaction runs.
C33_CompactionExcludesAll ==
    /\ [](\A t \in Threads :
            /\ pc[t] = "c_store"
                 => /\ locks[t] = {<<GuardLock, "write">>, <<StoreLock, "write">>}
                    /\ \A u \in Threads \ {t} : pc[u] \notin Touching /\ locks[u] = {}
            /\ pc[t] \in Appending => <<GuardLock, "read">> \in locks[t]
            /\ pc[t] = "index" => <<StoreLock, "write">> \in locks[t]
            /\ pc[t] \in {"f_index", "f_read", "f_file"} => <<GuardLock, "read">> \in locks[t]
            /\ pc[t] \in {"f_read", "r_test", "c_test"} => <<StoreLock, "read">> \in locks[t])
    /\ [][\A t \in Threads :
            /\ (pc[t] \in Appending /\ pc'[t] \in Appending)
                  => (<<GuardLock, "read">> \in locks[t] /\ <<GuardLock, "read">> \in locks'[t])
            /\ LCompact(t) => \A u \in Threads : pc[u] \notin Appending]_vars
\* A compaction holds both locks while the other thread's get waits for the
\* compaction guard.
C33_Witness ==
    /\ alive
    /\ \E t, u \in Threads :
          /\ pc[t] = "c_store"
          /\ NeedsCompaction(Cur)
          /\ pc[u] = "f_guard"

\* C34: when several threads have found db_offset at or above the threshold
\* and all call compaction, the first to hold the locks rewrites the file and
\* leaves db_offset below the threshold it sets; each later caller, holding
\* the locks in its turn, finds db_offset below the threshold and returns with
\* the data file, the index, the header, db_offset and the index file as
\* they were.
C34_OneRewrite ==
    [][\A t \in Threads :
        LCompact(t) =>
            IF NeedsCompaction(Cur)
            THEN /\ ~NeedsCompaction(Machine(db_header', db_records', store', db_offset'))
                 /\ db_header' # db_header
            ELSE /\ UNCHANGED <<db_header, db_records, store, db_offset, index_file>>
                 /\ ret' = <<"Ok">>]_vars
\* The later of two callers of compaction holds both locks after the other
\* has rewritten the file: db_offset is below the raised threshold.
C34_Witness ==
    /\ alive
    /\ \E t \in Threads :
          /\ pc[t] = "c_store"
          /\ ~NeedsCompaction(Cur)
          /\ store.header.next_compaction_size > MIN_COMPACTION_THRESHOLD

\* ------------------------------------------------- the server and its client
\*
\* KvsServer (src/src/kvs/server.rs) owns the engine and handles one
\* connection at a time: read once into a 1024-byte buffer, decode a
\* KvsCmdRequest, run it, write a KvsServerReply.  KvsClient
\* (src/src/kvs/client.rs) opens a connection per call, writes the request,
\* reads once into a 1024-byte buffer and decodes the reply.  A call of the
\* client is one step: the server takes no other connection meanwhile.
\*
\* A string on the wire is a record [c, n]: a value as in Vals, a key k as
\* [c |-> k, n |-> Len(k)].

KeyArg(k) == [c |-> k, n |-> Len(k)]
\* The values a client sends.
ClientVals == Vals \cup {[c |-> "m", n |-> MidLen]}

KvsCmdRequest(cmd, argument) == [cmd |-> cmd, argument |-> argument]
KvsServerReply(result, status) == [result |-> result, status |-> status]

\* Length of bson::to_vec(&request): {"cmd": string, "argument": [strings]}.
RECURSIVE ArgBytes(_)
ArgBytes(argument) ==
    IF argument = <<>> THEN 0
    ELSE (1 + 2 + 4 + Head(argument).n + 1) + ArgBytes(Tail(argument))
RequestSize(r) ==
    4 + (1 + 4 + (4 + Len(r.cmd) + 1)) + (1 + 9 + (4 + ArgBytes(r.argument) + 1)) + 1

\* Length of bson::to_vec(&reply): {"result": null or string, "status": string}.
ReplySize(reply) ==
    4 + (IF reply.result = None THEN 1 + 7 ELSE 1 + 7 + (4 + reply.result[2].n + 1))
      + (1 + 7 + (4 + Len(reply.status) + 1)) + 1

\* KvsEngine::set, get and remove as functions of the engine.
EngineSet(m, k, v, order) == CheckCompaction(Writeback(m, SetEntry(k, v)), order)
EngineGet(m, k) == Fetch(m.store.index, m.recs, k)
EngineRemove(m, k, order) ==
    IF k \notin DOMAIN m.store.index THEN [m EXCEPT !.res = <<"Err", "KeyNotExist", k>>]
    ELSE CheckCompaction(Writeback(m, DeleteEntry(k)), order)

\* The same three calls when the data file cannot be opened (the
\* OpenOptions::open(db_path)? of fetch and of writeback returns an I/O
\* error): get fails once it has found the key in the index, set fails at
\* once, remove fails after its test of the index; nothing is changed.
FaultyGet(m, k) ==
    IF k \in DOMAIN m.store.index THEN <<"Err", "IOError">> ELSE <<"Ok", None>>
FaultySet(m, k, v) == [m EXCEPT !.res = <<"Err", "IOError">>]
FaultyRemove(m, k) ==
    IF k \notin DOMAIN m.store.index THEN [m EXCEPT !.res = <<"Err", "KeyNotExist", k>>]
    ELSE [m EXCEPT !.res = <<"Err", "IOError">>]

\* A match on the Result that has no arm for KeyNotExist.
StatusOf_NoKeyArm(res) ==
    IF res[1] = "Ok" THEN "Success" ELSE "ServerInternalError"

\* The status handle_stream gives the Result of set or remove.
StatusOf(res) ==
    IF res[1] = "Ok" THEN "Success"
    ELSE IF res[2] = "KeyNotExist" THEN "KeyNotFound"
    ELSE "ServerInternalError"

\* handle_stream, lines 86-88: one read of at most 1024 bytes, then
\* bson::from_slice; a longer request arrives cut and does not decode.
Received(r) == RequestSize(r) <= ServerBufLen

\* The decimal form of a count of arguments.
Digit(n) == <<"0", "1", "2", "3">>[n + 1]

\* An InvalidArguments reply whose description is the empty string.
Description_Empty(cmd, required, provided) ==
    [c |-> "", n |-> 0]

\* The result of an InvalidArguments reply: the sentence
\* "CMD command required N argument, provided M", with the command word
\* between two backquotes (counted in the length, left out of the text).
Description(cmd, required, provided) ==
    LET text == cmd \o " command required " \o Digit(required)
                    \o " argument, provided " \o Digit(provided)
    IN  [c |-> text, n |-> Len(text) + 2]

\* What handle_stream does with a request it has decoded, as
\*   m : the engine after it;  reply : the reply it writes;
\*   call : the method of the backend it called ("none" if it called none);
\*   need_termination : whether it set self.need_termination;
\*   err : <<"none">>, or the error handle_stream returns with `?`.
Handled(m, reply, call) ==
    [m |-> m, reply |-> reply, call |-> call, need_termination |-> FALSE, err |-> <<"none">>]

\* A default arm that takes the command for KILL.
DefaultArm_Kills(m) ==
    [Handled(m, KvsServerReply(None, "Success"), "none") EXCEPT !.need_termination = TRUE]

\* handle_stream, the arm `_` of the match on the command word.
DefaultArm(m) == Handled(m, KvsServerReply(None, "InvalidCommand"), "none")

\* KvsServer::handle_stream; fault says whether the backend finds the data
\* file unopenable during this request.
HandleStream(m, r, order, fault) ==
    IF ~Received(r) THEN Handled(m, NoReply, "none")
    ELSE IF r.cmd = "GET" THEN
        IF Len(r.argument) = 1
        THEN LET res == IF fault THEN FaultyGet(m, r.argument[1].c)
                                 ELSE EngineGet(m, r.argument[1].c)
             IN  IF res[1] = "Ok"
                 THEN Handled(m, KvsServerReply(res[2], "Success"), "get")
                 ELSE [Handled(m, NoReply, "get") EXCEPT !.err = res]
        ELSE Handled(m, KvsServerReply(Some(Description("GET", 1, Len(r.argument))),
                                       "InvalidArguments"), "none")
    ELSE IF r.cmd = "SET" THEN
        IF Len(r.argument) = 2
        THEN LET n == IF fault THEN FaultySet(m, r.argument[1].c, r.argument[2])
                               ELSE EngineSet(m, r.argument[1].c, r.argument[2], order)
             IN  Handled(n, KvsServerReply(None, StatusOf(n.res)), "set")
        ELSE Handled(m, KvsServerReply(Some(Description("GET", 2, Len(r.argument))),
                                       "InvalidArguments"), "none")
    ELSE IF r.cmd \in {"RM", "REMOVE", "DELETE"} THEN
        IF Len(r.argument) = 1
        THEN LET n == IF fault THEN FaultyRemove(m, r.argument[1].c)
                               ELSE EngineRemove(m, r.argument[1].c, order)
             IN  Handled(n, KvsServerReply(None, StatusOf(n.res)), "remove")
        ELSE Handled(m, KvsServerReply(Some(Description(r.cmd, 1, Len(r.argument))),
                                       "InvalidArguments"), "none")
    ELSE IF r.cmd = "KILL" THEN
        IF Len(r.argument) = 0
        THEN [Handled(m, KvsServerReply(None, "Success"), "none")
                 EXCEPT !.need_termination = TRUE]
        ELSE Handled(m, KvsServerReply(Some(Description("KILL", 0, Len(r.argument))),
                                       "InvalidArguments"), "none")
    ELSE DefaultArm(m)

\* The iteration orders a compaction run by the request could take.
RequestOrders(m, r) ==
    IF r.cmd = "SET" /\ Len(r.argument) = 2
    THEN Orders(CompactionKeys(Writeback(m, SetEntry(r.argument[1].c, r.argument[2]))))
    ELSE IF r.cmd \in {"RM", "REMOVE", "DELETE"} /\ Len(r.argument) = 1
              /\ r.argument[1].c \in DOMAIN m.store.index
    THEN Orders(CompactionKeys(Writeback(m, DeleteEntry(r.argument[1].c))))
    ELSE {<<>>}

\* KvsClient::send_and_fetch: what the one read and bson::from_slice give.
\* A closed connection reads as 0 bytes or as a reset.
Fetched(reply) ==
    IF reply = NoReply
    THEN {<<"Err", "DeserializationError">>, <<"Err", "IOError">>}
    ELSE IF ReplySize(reply) > ClientBufLen THEN {<<"Err", "DeserializationError">>}
    ELSE {<<"Ok", reply>>}

\* KvsClient::set and KvsClient::remove: the outcome for a fetched reply.
WriteOutcome(f, key) ==
    IF f[1] = "Err" THEN f
    ELSE IF f[2].status = "Success" THEN <<"Ok">>
    ELSE IF f[2].status = "KeyNotFound" THEN <<"Err", "KeyNotExist", key>>
    ELSE <<"Err", "ServerError">>
\* KvsClient::get
GetOutcome(f) ==
    IF f[1] = "Err" THEN f
    ELSE IF f[2].status = "Success" THEN <<"Ok", f[2].result>>
    ELSE <<"Err", "ServerError">>
\* KvsClient::send_terminate_signal
KillOutcome(f) ==
    IF f[1] = "Err" THEN f
    ELSE IF f[2].status = "Success" THEN <<"Ok">>
    ELSE <<"Err", "ServerError">>

\* What the client call returns for the fetched reply f; send_and_fetch
\* itself returns f.
ClientOutcome(call, key, f) ==
    IF call \in {"set", "remove"} THEN WriteOutcome(f, key)
    ELSE IF call = "get" THEN GetOutcome(f)
    ELSE IF call = "send_terminate_signal" THEN KillOutcome(f)
    ELSE f

\* KvsServer::open(engine_type, path): the selector is matched in lower case.
Lower(engine) ==
    IF engine \in {"kvs", "KVS"} THEN "kvs"
    ELSE IF engine \in {"sled", "SLED"} THEN "sled"
    ELSE engine
Selectors == {"kvs", "KVS", "sled", "SLED", "rocks"}

\* The backend KvsServer::open opens for the selector: KvStore::open,
\* SledKvsEngine::open (kept as no more than the db it leaves in the
\* directory), or none.
OpenBackend(engine) ==
    IF Lower(engine) = "kvs" THEN OpenStep
    ELSE UNCHANGED <<db_header, db_records, index_file, alive, handles, store,
                     db_offset, ret, shadow, view>>

\* The server process once KvsServer::open has returned res for the selector.
Opened(engine, res) ==
    IF Lower(engine) = "kvs"
    THEN IF res[1] = "Ok"
         THEN [server EXCEPT !.state = "opened", !.backend = "kvs", !.engine = engine,
                             !.kvs_db = TRUE, !.need_termination = FALSE]
         ELSE [server EXCEPT !.state = "failed", !.engine = engine, !.kvs_db = TRUE,
                             !.result = res]
    ELSE IF Lower(engine) = "sled"
    THEN [server EXCEPT !.state = "opened", !.backend = "sled", !.engine = engine,
                        !.sled_db = TRUE, !.need_termination = FALSE]
    ELSE [server EXCEPT !.state = "failed", !.engine = engine,
                        !.result = <<"Err", "UnsupportedEngine">>]

\* KvsServer::open
ServerOpen(engine) ==
    /\ server.state = "none"
    /\ ~alive
    /\ OpenBackend(engine)
    /\ server' = Opened(engine, ret')
    /\ UNCHANGED conc

\* The start of KvsServer::start for the server s: TcpListener::bind, which
\* fails when the address is taken or cannot be bound.
Bound(s) ==
    {[s EXCEPT !.state = "listening"],
     [s EXCEPT !.state = "returned", !.result = <<"Err", "IOError">>]}

\* KvsServer::start up to its first accept.
Start ==
    /\ server.state = "opened"
    /\ server' \in Bound(server)
    /\ UNCHANGED <<db_header, db_records, index_file, alive, handles, store,
                   db_offset, ret, shadow, view>>
    /\ UNCHANGED conc

\* One turn of the loop of start for the request r handled as h:
\* handle_stream(stream)?, then if self.need_termination { break; } and Ok(()).
Served(h, r) ==
    [server EXCEPT !.request = r, !.reply = h.reply, !.call = h.call,
                   !.need_termination = @ \/ h.need_termination,
                   !.state = IF h.err # <<"none">> \/ server.need_termination
                                \/ h.need_termination
                             THEN "returned" ELSE @,
                   !.result = IF h.err # <<"none">> THEN h.err
                              ELSE IF server.need_termination \/ h.need_termination
                              THEN <<"Ok">> ELSE @]

\* The request reaches the server, which handles it; the client reads the
\* reply and its call on key returns the outcome of what it fetched.
Exchange(r, fault, call, key) ==
    /\ server.state = "listening"
    /\ alive
    /\ Cardinality(db_records) < MaxRecs
    /\ \E order \in RequestOrders(Cur, r) :
          LET h == HandleStream(Cur, r, order, fault)
          IN  /\ InstallFiles(h.m)
              /\ \E f \in Fetched(h.reply) : ret' = ClientOutcome(call, key, f)
              /\ server' = Served(h, r)
    /\ UNCHANGED <<index_file, alive, handles, view>>
    /\ UNCHANGED conc

\* KvsClient::set; shadow is what the engine called directly would hold.
ClientSet(k, v) ==
    /\ Exchange(KvsCmdRequest("SET", <<KeyArg(k), v>>), FALSE, "set", k)
    /\ shadow' = [shadow EXCEPT ![k] = Some(v)]

\* KvsClient::get
ClientGet(k) ==
    /\ Exchange(KvsCmdRequest("GET", <<KeyArg(k)>>), FALSE, "get", k)
    /\ UNCHANGED shadow

\* KvsClient::remove
ClientRemove(k) ==
    /\ Exchange(KvsCmdRequest("REMOVE", <<KeyArg(k)>>), FALSE, "remove", k)
    /\ shadow' = [shadow EXCEPT ![k] = None]

\* KvsClient::send_terminate_signal
ClientKill ==
    /\ Exchange(KvsCmdRequest("KILL", <<>>), FALSE, "send_terminate_signal", "")
    /\ UNCHANGED shadow

NextServer ==
    \/ \E engine \in Selectors : ServerOpen(engine)
    \/ Start
    \/ \E k \in Keys, v \in ClientVals : ClientSet(k, v)
    \/ \E k \in Keys : ClientGet(k)
    \/ \E k \in Keys : ClientRemove(k)
    \/ ClientKill

SpecServer == Init /\ [][NextServer]_vars

\* C20: every call of the client returns what the same call made on the
\* engine directly returns, after the same calls before it: set gives Ok,
\* get gives Some(v) of the last set not removed since, or None, and remove
\* gives Ok or KeyNotExist(k).
C20_ClientAsEngine ==
    [][\A k \in Keys :
        /\ (\E v \in ClientVals : ClientSet(k, v)) => ret' = <<"Ok">>
        /\ ClientGet(k) => ret' = <<"Ok", shadow[k]>>
        /\ ClientRemove(k) => ret' = IF shadow[k] = None THEN <<"Err", "KeyNotExist", k>>
                                                         ELSE <<"Ok">>]_vars

\* ------------------------------------------ requests of any shape
\*
\* A connection may carry any request, not only those KvsClient builds: any
\* command word with any number of arguments, and the backend may fail.

Commands == {"GET", "SET", "RM", "REMOVE", "DELETE", "KILL", "FOO", "get"}
\* The count of arguments handle_stream requires for a command it knows.
Required(cmd) == IF cmd = "SET" THEN 2 ELSE IF cmd = "KILL" THEN 0 ELSE 1
Known == {"GET", "SET", "RM", "REMOVE", "DELETE", "KILL"}
WellFormed(r) == r.cmd \in Known /\ Len(r.argument) = Required(r.cmd)

\* Argument lists of 0 to 3 strings: every key and value where the count can
\* be the required one, and one list of each other length.
ArgumentsOf(n) ==
    IF n = 0 THEN {<<>>}
    ELSE IF n = 1 THEN {<<KeyArg(k)>> : k \in Keys}
    ELSE IF n = 2 THEN {<<KeyArg(k), v>> : k \in Keys, v \in ClientVals}
    ELSE {<<KeyArg("k1"), [c |-> "a", n |-> SmallLen], KeyArg("k2")>>}
Requests ==
    {r \in UNION {{KvsCmdRequest(cmd, argument) : argument \in ArgumentsOf(n)} :
                    cmd \in Commands, n \in 0 .. 3} :
        \/ WellFormed(r)
        \/ r.argument \in {<<>>, <<KeyArg("k1")>>, <<KeyArg("k1"), [c |-> "a", n |-> SmallLen]>>,
                            <<KeyArg("k1"), [c |-> "m", n |-> MidLen]>>}
        \/ Len(r.argument) = 3}

\* A connection that writes the request r and reads what comes back.  shadow
\* follows the writes the server has carried out.
Request(r, fault) ==
    /\ fault => WellFormed(r) /\ r.cmd # "KILL"
    /\ Exchange(r, fault, "send_and_fetch", "")
    /\ shadow' = IF server'.call = "set" /\ server'.reply.status = "Success"
                 THEN [shadow EXCEPT ![r.argument[1].c] = Some(r.argument[2])]
                 ELSE IF server'.call = "remove" /\ server'.reply.status = "Success"
                 THEN [shadow EXCEPT ![r.argument[1].c] = None]
                 ELSE shadow

NextProtocol ==
    \/ \E engine \in Selectors : ServerOpen(engine)
    \/ Start
    \/ \E r \in Requests, fault \in BOOLEAN : Request(r, fault)

SpecProtocol == Init /\ [][NextProtocol]_vars

\* The files and the engine are what they were.
StoreUnchanged == UNCHANGED <<db_header, db_records, index_file, store, db_offset>>

C22_UnknownCommand ==
    [][\A fault \in BOOLEAN :
        (/\ Request(server'.request, fault)
         /\ Received(server'.request)
         /\ server'.request.cmd \notin Known)
        => /\ server'.reply = KvsServerReply(None, "InvalidCommand")
           /\ server'.call = "none"
           /\ StoreUnchanged
           /\ ~server'.need_termination
           /\ server'.state = "listening"]_vars

\* FOO with two arguments has been answered by a server whose store holds a
\* record.
C22_Witness ==
    /\ server.request.cmd = "FOO"
    /\ Len(server.request.argument) = 2
    /\ server.reply.status = "InvalidCommand"
    /\ server.state = "listening"
    /\ db_records # {}

\* C23: a KILL with no argument is answered Success and makes start return
\* Ok, after which no connection is handled; start returns Ok in no other
\* case, and a request that is not a KILL with no argument, well-formed or
\* not, leaves the server in its accept loop.
C23_OnlyKillStops ==
    /\ [][\A fault \in BOOLEAN :
            Request(server'.request, fault)
            => IF server'.request = KvsCmdRequest("KILL", <<>>)
               THEN /\ server'.reply = KvsServerReply(None, "Success")
                    /\ server'.state = "returned"
                    /\ server'.result = <<"Ok">>
               ELSE server'.state = "listening"]_vars
    /\ [][server.state = "returned" => server' = server]_vars
    /\ [](server.state = "returned" /\ server.result = <<"Ok">>
            => server.request = KvsCmdRequest("KILL", <<>>))

\* C24: every connection the server accepts gets one reply, a connection
\* whose bytes do not decode as a request included, which is answered
\* InvalidCommand; such a connection changes nothing of the store and
\* leaves the server in its accept loop for the next one.
C24_OneReplyEach ==
    [][\A fault \in BOOLEAN :
        Request(server'.request, fault)
        => /\ server'.reply # NoReply
           /\ ~Received(server'.request)
                => /\ server'.reply = KvsServerReply(None, "InvalidCommand")
                   /\ StoreUnchanged
                   /\ server'.state = "listening"]_vars

\* The request is RM, REMOVE or DELETE with its one argument.
IsRemoval(r) == r.cmd \in {"RM", "REMOVE", "DELETE"} /\ Len(r.argument) = 1

\* C26: the reply to a request is KeyNotFound exactly when the request is
\* RM, REMOVE or DELETE with one argument, a key the backend does not hold;
\* so no GET and no SET is answered KeyNotFound; and RM, REMOVE and DELETE
\* of the same key do the same to the engine and get the same reply.
C26_KeyNotFoundOnlyForRemoval ==
    /\ [][\A fault \in BOOLEAN :
            Request(server'.request, fault)
            => (server'.reply.status = "KeyNotFound"
                <=> /\ IsRemoval(server'.request)
                    /\ server'.request.argument[1].c \notin DOMAIN store.index)]_vars
    /\ [](server.state = "listening" =>
            \A k \in Keys, fault \in BOOLEAN, cmd \in {"REMOVE", "DELETE"} :
              LET rm == KvsCmdRequest("RM", <<KeyArg(k)>>)
              IN  \A order \in RequestOrders(Cur, rm) :
                    HandleStream(Cur, KvsCmdRequest(cmd, <<KeyArg(k)>>), order, fault)
                        = HandleStream(Cur, rm, order, fault))

\* A DELETE of a key not held has been answered KeyNotFound by a server
\* whose backend holds another key.
C26_Witness ==
    /\ server.request = KvsCmdRequest("DELETE", <<KeyArg("k1")>>)
    /\ server.reply.status = "KeyNotFound"
    /\ alive
    /\ DOMAIN store.index = {"k2"}

\* C39: a well-formed GET, SET or RM whose backend call fails with an error
\* other than KeyNotExist is answered ServerInternalError, and the server
\* stays in its accept loop.
C39_BackendErrorAnswered ==
    [][(/\ Request(server'.request, TRUE)
        /\ Received(server'.request)
        /\ \/ server'.request.cmd = "SET"
           \/ server'.request.argument[1].c \in DOMAIN store.index)
        => /\ server'.reply = KvsServerReply(None, "ServerInternalError")
           /\ server'.state = "listening"]_vars

\* ------------------------------------------ the server executable
\*
\* main of src/src/bin/kvs-server.rs is started with a selector (--engine)
\* on a base directory that may hold kvs.db (empty, with a header, or not
\* decodable) and sled's db.  It refuses a directory of the other backend
\* with quit::with_code(255), and else runs
\* KvsServer::open(engine, path)?.start(addr)?.

\* The test of lines 72-73; the selector is compared as it was typed.
Conflict_KvsOnly(s) == s.kvs_db /\ s.engine # "kvs"

Conflict(s) == (s.kvs_db /\ s.engine # "kvs") \/ (s.sled_db /\ s.engine # "sled")

InitMain ==
    \E hdr \in DataFiles, kvs_db, sled_db \in BOOLEAN, engine \in Selectors :
        /\ hdr # <<>> => kvs_db
        /\ InitEngine(hdr)
        /\ server = [NoServer EXCEPT !.state = "main", !.engine = engine,
                                     !.kvs_db = kvs_db, !.sled_db = sled_db]

\* main, up to the accept loop of start or to the end of the process.
Main ==
    /\ server.state = "main"
    /\ ~alive
    /\ IF Conflict(server)
       THEN /\ server' = [server EXCEPT !.state = "exited", !.result = <<"exit", 255>>]
            /\ UNCHANGED <<db_header, db_records, index_file, alive, handles, store,
                           db_offset, ret, shadow, view>>
       ELSE /\ OpenBackend(server.engine)
            /\ LET s == Opened(server.engine, ret')
               IN  server' \in IF s.state = "opened" THEN Bound(s) ELSE {s}
    /\ UNCHANGED conc

NextMain ==
    \/ Main
    \/ \E r \in Requests, fault \in BOOLEAN : Request(r, fault)

SpecMain == InitMain /\ [][NextMain]_vars

Statuses == {"Success", "InvalidArguments", "InvalidCommand", "KeyNotFound",
             "ServerInternalError"}
PeerReplies ==
    {KvsServerReply(x, status) :
        x \in {None} \cup {Some(v) : v \in ClientVals}, status \in Statuses}

\* The call sends r and the peer writes reply.
Answered(r, reply) ==
    /\ server.state = "none"
    /\ ~alive
    /\ server' = [server EXCEPT !.request = r, !.reply = reply]
    /\ UNCHANGED <<db_header, db_records, index_file, alive, handles, store,
                   db_offset, shadow, view>>
    /\ UNCHANGED conc

\* KvsClient::set, get, remove and send_terminate_signal over such a peer.
AnsweredSet(k, v, reply) ==
    /\ Answered(KvsCmdRequest("SET", <<KeyArg(k), v>>), reply)
    /\ \E f \in Fetched(reply) : ret' = WriteOutcome(f, k)
AnsweredGet(k, reply) ==
    /\ Answered(KvsCmdRequest("GET", <<KeyArg(k)>>), reply)
    /\ \E f \in Fetched(reply) : ret' = GetOutcome(f)
AnsweredRemove(k, reply) ==
    /\ Answered(KvsCmdRequest("REMOVE", <<KeyArg(k)>>), reply)
    /\ \E f \in Fetched(reply) : ret' = WriteOutcome(f, k)
AnsweredKill(reply) ==
    /\ Answered(KvsCmdRequest("KILL", <<>>), reply)
    /\ \E f \in Fetched(reply) : ret' = KillOutcome(f)

NextClient ==
    \E reply \in PeerReplies :
        \/ \E k \in Keys, v \in ClientVals : AnsweredSet(k, v, reply)
        \/ \E k \in Keys : AnsweredGet(k, reply)
        \/ \E k \in Keys : AnsweredRemove(k, reply)
        \/ AnsweredKill(reply)

SpecClient == Init /\ [][NextClient]_vars

\* C25: what a call of the client returns is fixed by the status of the
\* reply it has read: Success gives Ok, with the result of the reply for
\* get; KeyNotFound gives KeyNotExist of the key sent; any other status
\* gives ServerError; so for set, get, remove and send_terminate_signal.
C25_OutcomeByStatus ==
    (server.request # NoRequest /\ ReplySize(server.reply) <= ClientBufLen)
    => IF server.reply.status = "Success"
       THEN ret = IF server.request.cmd = "GET" THEN <<"Ok", server.reply.result>>
                                                ELSE <<"Ok">>
       ELSE IF server.reply.status = "KeyNotFound"
       THEN /\ Len(ret) = 3
            /\ ret[1] = "Err"
            /\ ret[2] = "KeyNotExist"
            /\ server.request.argument # <<>> => ret[3] = server.request.argument[1].c
       ELSE ret = <<"Err", "ServerError">>

====
